---- MODULE Spec2Model ----
(***************************************************************************)
(* Account selection and tick streaming of smb060606/bugbot-test.          *)
(*                                                                         *)
(* Spec     the SSE tick stream (GET of the stream route): the tick loop,  *)
(*          the heartbeat interval, the connection-cap timeout and the     *)
(*          consumer's cancel, sharing one controller (the sink).          *)
(* SelSpec  selectEligibleAccounts of the Bluesky and the Twitter service  *)
(*          applied to an allowlist and a set of override rules.           *)
(* OvSpec   the override table with its scopes and the selector's callers.  *)
(* AnSpec   computeEligibility, summarizeSentiment and extractTopics.       *)
(* FetchSpec fetchRecentPostsForAccounts and the retry of buildTick.        *)
(* SumSpec  GET of summaries/latest: rate limiter, outcomes and audit.      *)
(* ComSpec  the in-memory comment store of the comments route.              *)
(***************************************************************************)
EXTENDS Integers, Sequences, FiniteSets, TLC

VARIABLES
    \* ---- tick stream (bskyService.ts 800-952) ----
    pc,           \* "off" | "new" | "building" | "delay" | "exited" | "crashed"
    hdr,          \* Last-Event-ID request header
    qp,           \* lastEventId query parameter
    forceWindow,  \* window query parameter after validation, NoWindow when absent
    tick,         \* let tick
    arg,          \* tick number handed to the buildTick call in flight
    winState,     \* const state of the iteration in flight
    stopped,      \* let stopped
    closer,       \* connection-cap timeout: "none" | "pending" | "fired"
    pinger,       \* heartbeat interval: "none" | "set"
    delayTimer,   \* tick-delay timeout: "none" | "pending"
    ctrl,         \* state of the stream behind the controller: "open" | "closed"
    sink,         \* frames enqueued on the controller, in order
    cancelled,    \* history: cancel() has run
    \* ---- account selector (bskyService.ts 205-298, 657-744) ----
    selPc,        \* "off" | "input" | "done"
    platform,     \* "bsky" | "twitter"
    maxAccounts,  \* BSKY_MAX_ACCOUNTS / TWITTER_MAX_ACCOUNTS as configured
    baseProfiles, \* result of resolveAllowlistProfiles()
    inc,          \* include rules returned by getOverrides
    exc,          \* exclude rules returned by getOverrides
    lookup,       \* accounts the AppView getProfiles call returns
    selOut,       \* the list selectEligibleAccounts returned
    \* ---- override store and the selector's callers ----
    ovTable,      \* rows of the override table for the platform, unexpired
    matchId,      \* the match the caller works for
    caller,       \* "none" | "selector" | "buildTick" | "summary"
    \* ---- eligibility and window analytics (pure functions) ----
    anPc,         \* "off" | "input" | "done"
    anIn,         \* the argument of the call
    anOut,        \* the value the call returned
    \* ---- summaries route (summaries/latest/+server.ts) ----
    sumEnv,       \* process.env: is OPENAI_API_KEY set, is the audit store configured
    sumNow,       \* Date.now(), ms
    SUMMARY_REQ_TIMESTAMPS,
    slot,         \* the requests in flight, one record each
    arrivals,     \* history: requests received so far
    admitted,     \* history: the times at which the limiter let a request pass
    \* ---- comments route, in-memory store (comments/+server.ts) ----
    COMMENTS_MEM, \* matchId -> comments, as kept by the Map
    COMMENTS_TTL, \* matchId -> expiry timestamp
    comNow,       \* Date.now(), ms
    comCalls,     \* history: addCommentToMemory calls followed so far
    comLast       \* history: the last call, and the matches that were expired at it

streamVars == <<pc, hdr, qp, forceWindow, tick, arg, winState, stopped, closer,
                pinger, delayTimer, ctrl, sink, cancelled>>
selVars == <<selPc, platform, maxAccounts, baseProfiles, inc, exc, lookup, selOut,
             ovTable, matchId, caller>>
anVars == <<anPc, anIn, anOut>>
sumVars == <<sumEnv, sumNow, SUMMARY_REQ_TIMESTAMPS, slot, arrivals, admitted>>
comVars == <<COMMENTS_MEM, COMMENTS_TTL, comNow, comCalls, comLast>>
routeVars == <<sumVars, comVars>>
vars == <<streamVars, selVars, anVars, routeVars>>

(***************************************************************************)
(* Bounds of the model.                                                    *)
(***************************************************************************)
MaxLastId == 1      \* last-seen ids 0..MaxLastId are tried
MaxTicks == 3       \* tick computations started per connection
MaxHeartbeats == 1  \* heartbeat frames per connection

(***************************************************************************)
(* Tick stream: request parameters.                                        *)
(***************************************************************************)
NoWindow == "null"
WindowStates == {"pre", "live", "post", "ended"}
\* The window state is a function of the time elapsed since kickoff: as time
\* passes it only moves forward, pre -> live -> post -> ended.
WindowRank(s) == CASE s = "pre" -> 0 [] s = "live" -> 1 [] s = "post" -> 2 [] OTHER -> 3
LaterStates(s) == {w \in WindowStates : WindowRank(w) >= WindowRank(s)}
ForceWindows == {NoWindow, "pre", "live", "post"}

\* A header or query value: absent, the empty string, a non-numeric text, or
\* the decimal text of an integer.
Absent == [t |-> "null", n |-> 0]
EmptyText == [t |-> "empty", n |-> 0]
OtherText == [t |-> "text", n |-> 0]
NumText(k) == [t |-> "num", n |-> k]
RawValues == {Absent, EmptyText, OtherText} \cup {NumText(k) : k \in -1..MaxLastId}
\* The requests tried, as <<header, query parameter>>: the header alone, the
\* query parameter alone, and a query parameter beside the header "0".
Requests ==
    {<<h, Absent>> : h \in RawValues} \cup {<<Absent, q>> : q \in RawValues}
        \cup {<<NumText(0), q>> : q \in RawValues}

\* request?.headers?.get('last-event-id') || null
lastEventIdHeader(h) == IF h.t = "empty" THEN Absent ELSE h

\* lastEventIdParam ?? lastEventIdHeader
LastEventIdSource(h, q) == IF q.t # "null" THEN q ELSE lastEventIdHeader(h)

\* Number(v): null and "" convert to 0, a non-numeric text to NaN.
ToNumber(v) ==
    CASE v.t = "null" -> [nan |-> FALSE, v |-> 0]
      [] v.t = "empty" -> [nan |-> FALSE, v |-> 0]
      [] v.t = "text" -> [nan |-> TRUE, v |-> 0]
      [] OTHER -> [nan |-> FALSE, v |-> v.n]

parsedLast(h, q) == ToNumber(LastEventIdSource(h, q))

StartTickNoAdvance(h, q) ==
    LET p == parsedLast(h, q) IN IF ~p.nan /\ p.v >= 0 THEN p.v ELSE 0

\* Number.isFinite(parsedLast) && parsedLast >= 0 ? parsedLast + 1 : 0
startTick(h, q) ==
    LET p == parsedLast(h, q) IN IF ~p.nan /\ p.v >= 0 THEN p.v + 1 ELSE 0

(***************************************************************************)
(* Tick stream: frames.                                                    *)
(***************************************************************************)
MetaFrame == [kind |-> "meta", id |-> 0, tick |-> 0, window |-> "none"]
HeartbeatFrame == [kind |-> "hb", id |-> 0, tick |-> 0, window |-> "none"]
ErrorFrame == [kind |-> "error", id |-> 0, tick |-> 0, window |-> "none"]
EndedFrame == [kind |-> "ended", id |-> 0, tick |-> 0, window |-> "none"]
\* `id: ${tick}\ndata: ${JSON.stringify(payload)}`, payload.tick the number
\* buildTick was called with
TickFrame(i, t, w) == [kind |-> "tick", id |-> i, tick |-> t, window |-> w]

\* state === 'ended' ? 'post' : state
dynamic(s) == IF s = "ended" THEN "post" ELSE s

CountKind(s, k) == Cardinality({i \in 1..Len(s) : s[i].kind = k})

(***************************************************************************)
(* Tick stream: the loop.                                                  *)
(***************************************************************************)
\* Top of while (!stopped), up to the await of buildTick: the window state is
\* forceWindow ?? getWindowState(...), and tick++ is evaluated as the call's
\* argument.
LoopHeadNoIncrement(t, s) ==
    /\ winState' = (IF forceWindow # NoWindow THEN forceWindow ELSE s)
    /\ arg' = t
    /\ tick' = t
    /\ pc' = "building"

LoopHead(t, s) ==
    /\ winState' = (IF forceWindow # NoWindow THEN forceWindow ELSE s)
    /\ arg' = t
    /\ tick' = t + 1
    /\ pc' = "building"

\* "Close after loop exits": clearInterval(pinger), controller.close() in try.
LoopExit ==
    /\ pinger' = "none"
    /\ ctrl' = "closed"
    /\ pc' = "exited"

\* An enqueue on a closed controller throws; thrown inside the catch block it
\* rejects loop(), whose .catch only tries controller.close().
LoopCrash ==
    /\ pc' = "crashed"
    /\ UNCHANGED <<sink, pinger, ctrl, delayTimer>>

\* start(controller): the meta frame, the heartbeat interval, the first pass
\* of loop() up to its await, the connection-cap timeout.
Start ==
    /\ pc = "new"
    /\ sink' = <<MetaFrame>>
    /\ pinger' = "set"
    /\ \E s \in LaterStates(winState) : LoopHead(startTick(hdr, qp), s)
    /\ closer' = "pending"
    /\ UNCHANGED <<hdr, qp, forceWindow, stopped, delayTimer, ctrl, cancelled>>
    /\ UNCHANGED <<selVars, anVars, routeVars>>

EndedBreakNever == FALSE

\* if (!forceWindow && state === 'ended')
EndedBreak == forceWindow = NoWindow /\ winState = "ended"

\* buildTick resolved: enqueue the tick frame, then either the ended frame
\* and break, or the tick delay.
TickDone ==
    /\ pc = "building"
    /\ IF ctrl = "open"
          THEN IF EndedBreak
                  THEN /\ sink' = sink \o <<TickFrame(tick, arg, dynamic(winState)), EndedFrame>>
                       /\ LoopExit
                       /\ UNCHANGED delayTimer
                  ELSE /\ sink' = Append(sink, TickFrame(tick, arg, dynamic(winState)))
                       /\ pc' = "delay"
                       /\ delayTimer' = "pending"
                       /\ UNCHANGED <<pinger, ctrl>>
          ELSE LoopCrash
    /\ UNCHANGED <<hdr, qp, forceWindow, tick, arg, winState, stopped, closer, cancelled>>
    /\ UNCHANGED <<selVars, anVars, routeVars>>

AfterErrorExit ==
    /\ LoopExit
    /\ UNCHANGED delayTimer

AfterErrorDelay ==
    /\ pc' = "delay"
    /\ delayTimer' = "pending"
    /\ UNCHANGED <<pinger, ctrl>>

\* buildTick rejected: the catch block enqueues the error frame, then the
\* tick delay.
TickFail ==
    /\ pc = "building"
    /\ IF ctrl = "open"
          THEN /\ sink' = Append(sink, ErrorFrame)
               /\ AfterErrorDelay
          ELSE LoopCrash
    /\ UNCHANGED <<hdr, qp, forceWindow, tick, arg, winState, stopped, closer, cancelled>>
    /\ UNCHANGED <<selVars, anVars, routeVars>>

LoopGuardIgnoresStop == TRUE

\* while (!stopped)
LoopGuard == ~stopped

\* The tick delay elapsed: back to while (!stopped).
DelayElapsed ==
    /\ pc = "delay"
    /\ delayTimer' = "none"
    /\ IF LoopGuard
          THEN /\ tick - startTick(hdr, qp) < MaxTicks
               /\ \E s \in LaterStates(winState) : LoopHead(tick, s)
               /\ UNCHANGED <<pinger, ctrl>>
          ELSE /\ LoopExit
               /\ UNCHANGED <<tick, arg, winState>>
    /\ UNCHANGED <<hdr, qp, forceWindow, stopped, closer, sink, cancelled>>
    /\ UNCHANGED <<selVars, anVars, routeVars>>

\* The setInterval callback: enqueue a keep-alive comment, ignoring the error
\* of a closed controller.
Heartbeat ==
    /\ pinger = "set"
    /\ CountKind(sink, "hb") < MaxHeartbeats
    /\ sink' = IF ctrl = "open" THEN Append(sink, HeartbeatFrame) ELSE sink
    /\ UNCHANGED <<pc, hdr, qp, forceWindow, tick, arg, winState, stopped, closer,
                   pinger, delayTimer, ctrl, cancelled>>
    /\ UNCHANGED <<selVars, anVars, routeVars>>

CapLeavesRunning ==
    /\ closer = "pending"
    /\ closer' = "fired"
    /\ UNCHANGED <<pc, hdr, qp, forceWindow, tick, arg, winState, stopped, pinger,
                   delayTimer, ctrl, sink, cancelled>>
    /\ UNCHANGED <<selVars, anVars, routeVars>>

\* The connection-cap timeout fires: stopped = true, clearInterval(pinger),
\* controller.close() in try.
CapFires ==
    /\ closer = "pending"
    /\ closer' = "fired"
    /\ stopped' = TRUE
    /\ pinger' = "none"
    /\ ctrl' = "closed"
    /\ UNCHANGED <<pc, hdr, qp, forceWindow, tick, arg, winState, delayTimer, sink,
                   cancelled>>
    /\ UNCHANGED <<selVars, anVars, routeVars>>

\* cancel(): the consumer cancelled, which closes the stream before the
\* callback runs: stopped = true, clearTimeout(closer), clearInterval(pinger).
Cancel ==
    /\ pc \notin {"off", "new"}
    /\ stopped' = TRUE
    /\ closer' = (IF closer = "pending" THEN "none" ELSE closer)
    /\ pinger' = "none"
    /\ ctrl' = "closed"
    /\ cancelled' = TRUE
    /\ UNCHANGED <<pc, hdr, qp, forceWindow, tick, arg, winState, delayTimer, sink>>
    /\ UNCHANGED <<selVars, anVars, routeVars>>

(***************************************************************************)
(* Account selector: profiles, rules and configuration.                    *)
(***************************************************************************)
\* An optional number (followersCount, createdAt): <<>> when undefined or
\* null, <<n>> otherwise.  createdAt is kept as the account's age in days.
None == <<>>
Some(n) == <<n>>

\* Thresholds imported from config/bsky and config/twitter (bskyService.ts
\* 5-6 and 536-537); small values stand for the configured ones.
BSKY_MIN_FOLLOWERS == 3
BSKY_MIN_ACCOUNT_MONTHS == 6
TWITTER_MIN_FOLLOWERS == 3
TWITTER_MIN_ACCOUNT_MONTHS == 6

MaxCap == 2     \* the configured maximum number of accounts ranges over 1..MaxCap
MaxRules == 2   \* include plus exclude rules returned by getOverrides

Platforms == {"bsky", "twitter"}
\* matchId ?? null
NoMatch == "null"
Accounts == {"a1", "a2", "a3"}
RuleAccounts == {"a2", "a3"}

\* What the AppView knows of each account, as toProfileBasic returns it.
Directory ==
    [a \in Accounts |->
        CASE a = "a1" -> [did |-> "d1", handle |-> "h1", displayName |-> "One",
                          followersCount |-> Some(9), postsCount |-> Some(4),
                          createdAt |-> Some(400)]
          [] a = "a2" -> [did |-> "d2", handle |-> "h2", displayName |-> "Two",
                          followersCount |-> Some(5), postsCount |-> None,
                          createdAt |-> None]
          [] OTHER -> [did |-> "d3", handle |-> "h3", displayName |-> "Three",
                       followersCount |-> None, postsCount |-> Some(1),
                       createdAt |-> Some(20)]]

\* Twitter resolveAllowlistProfiles: a minimal profile per allowlist handle.
tw_resolveAllowlistProfile(h) ==
    [user_id |-> "", handle |-> h, displayName |-> h, followersCount |-> None,
     postsCount |-> None, createdAt |-> None]

\* Sequences over S without repetition.
RECURSIVE DistinctSeqs(_)
DistinctSeqs(S) ==
    {<<>>} \cup UNION {{<<x>> \o t : t \in DistinctSeqs(S \ {x})} : x \in S}

\* Sequences over S of length at most n.
RECURSIVE SeqsUpTo(_, _)
SeqsUpTo(S, n) ==
    IF n = 0 THEN {<<>>}
    ELSE LET shorter == SeqsUpTo(S, n - 1)
         IN  shorter \cup {Append(t, x) : t \in {u \in shorter : Len(u) = n - 1}, x \in S}

\* Include rules: by native id with or without a declared handle, or by handle.
IncludeRules(pf) ==
    LET idType == IF pf = "bsky" THEN "did" ELSE "user_id"
    IN  {[identifier |-> Directory[a].did, identifier_type |-> idType,
          handle |-> IF withHandle THEN Directory[a].handle ELSE "",
          bypass_eligibility |-> b] :
            a \in RuleAccounts, withHandle \in BOOLEAN, b \in BOOLEAN}
        \cup
        {[identifier |-> Directory[a].handle, identifier_type |-> "handle", handle |-> "",
          bypass_eligibility |-> b] : a \in RuleAccounts, b \in BOOLEAN}

ExcludeRules(pf) ==
    LET idType == IF pf = "bsky" THEN "did" ELSE "user_id"
    IN  {[identifier |-> Directory[a].did, identifier_type |-> idType] : a \in Accounts}
        \cup
        {[identifier |-> Directory[a].handle, identifier_type |-> "handle"] : a \in Accounts}

(***************************************************************************)
(* Account selector: eligibility.                                          *)
(***************************************************************************)
Abs(x) == IF x < 0 THEN 0 - x ELSE x

\* monthsBetween(createdAt, now) < minMonths, a month being 30 days
AgeBelow(days, minMonths) == Abs(days) < minMonths * 30

\* As Eligibility, with an account of unknown age failing the age check.
EligibilityUnknownAgeFails(followersCount, createdAt, minFollowers, minMonths) ==
    LET followers == IF followersCount = None THEN 0 ELSE followersCount[1]
        followersOk == ~(followers < minFollowers)
        ageOk == createdAt # None /\ ~AgeBelow(createdAt[1], minMonths)
    IN  [eligible |-> followersOk /\ ageOk,
         reasons |-> <<IF followersOk THEN "followers>=min" ELSE "followers<min",
                       IF createdAt = None THEN "age=unknown"
                       ELSE IF ageOk THEN "age>=min" ELSE "age<min">>]

Eligibility(followersCount, createdAt, minFollowers, minMonths) ==
    LET followers == IF followersCount = None THEN 0 ELSE followersCount[1]
        followersOk == ~(followers < minFollowers)
        ageOk == createdAt = None \/ ~AgeBelow(createdAt[1], minMonths)
    IN  [eligible |-> followersOk /\ ageOk,
         reasons |-> <<IF followersOk THEN "followers>=min" ELSE "followers<min",
                       IF createdAt = None THEN "age=unknown"
                       ELSE IF ageOk THEN "age>=min" ELSE "age<min">>]

\* computeEligibility of the Bluesky service
computeEligibility(profile) ==
    Eligibility(profile.followersCount, profile.createdAt,
                BSKY_MIN_FOLLOWERS, BSKY_MIN_ACCOUNT_MONTHS)

\* computeEligibility of the Twitter service
tw_computeEligibility(profile) ==
    Eligibility(profile.followersCount, profile.createdAt,
                TWITTER_MIN_FOLLOWERS, TWITTER_MIN_ACCOUNT_MONTHS)

BypassEligibility == [eligible |-> TRUE, reasons |-> <<"admin:include override (bypass=true)">>]

(***************************************************************************)
(* Account selector: shared steps.                                         *)
(***************************************************************************)
followersOf(a) == IF a.profile.followersCount = None THEN 0 ELSE a.profile.followersCount[1]

\* Array.prototype.sort with (a, b) => followers(b) - followers(a): a stable
\* sort by descending follower count.
RECURSIVE InsertByFollowers(_, _)
InsertByFollowers(sorted, a) ==
    IF sorted = <<>> THEN <<a>>
    ELSE IF followersOf(sorted[Len(sorted)]) >= followersOf(a) THEN Append(sorted, a)
    ELSE Append(InsertByFollowers(SubSeq(sorted, 1, Len(sorted) - 1), a), sorted[Len(sorted)])

RECURSIVE SortByFollowers(_)
SortByFollowers(s) ==
    IF s = <<>> THEN <<>>
    ELSE InsertByFollowers(SortByFollowers(SubSeq(s, 1, Len(s) - 1)), s[Len(s)])

Min(a, b) == IF a < b THEN a ELSE b
Max(a, b) == IF a > b THEN a ELSE b

\* Step 5: merge with the includes first, sort by followers, and when the
\* merged list is longer than the cap return every include followed by the
\* first `remaining` base accounts.
MergeAndCap(selectedInclude, selectedBase, cap) ==
    LET merged == SortByFollowers(selectedInclude \o selectedBase)
        remaining == Max(cap - Len(selectedInclude), 0)
    IN  IF Len(merged) > cap
        THEN selectedInclude \o SubSeq(selectedBase, 1, Min(remaining, Len(selectedBase)))
        ELSE merged

(***************************************************************************)
(* Account selector: Bluesky.                                              *)
(***************************************************************************)
DidKey(d) == [by |-> "did", v |-> d]
HandleKey(h) == [by |-> "handle", v |-> h]

\* keyOf: `did:<did>` when the profile has a did, else `handle:<handle>`
keyOf(p) == IF p.did # "" THEN DidKey(p.did) ELSE HandleKey(p.handle)

\* o.identifier_type === 'did' ? `did:${o.identifier}` : `handle:${o.identifier}`
ruleKey(o) == IF o.identifier_type = "did" THEN DidKey(o.identifier) ELSE HandleKey(o.identifier)

\* fetchProfilesByActors: the profiles of the actors (DIDs or handles) the
\* AppView returns; none when the call fails.
fetchProfilesByActors(actors, found) ==
    {Directory[a] : a \in {x \in found : Directory[x].did \in actors
                                          \/ Directory[x].handle \in actors}}

\* includeByKey after the loop over includeProfiles
includeByKeyResolved(rules, found) ==
    LET includeActors == {rules[i].identifier : i \in 1..Len(rules)} \ {""}
        includeProfiles == fetchProfilesByActors(includeActors, found)
    IN  [k \in {keyOf(p) : p \in includeProfiles} |->
            CHOOSE p \in includeProfiles : keyOf(p) = k]

\* The minimal handle-based profile of an include that was not resolved.
minimalProfile(handle) ==
    [did |-> "", handle |-> handle, displayName |-> handle,
     followersCount |-> Some(0), postsCount |-> Some(0), createdAt |-> None]

\* o.handle ?? (o.identifier_type === 'handle' ? o.identifier : '')
fallbackHandle(o) ==
    IF o.handle # "" THEN o.handle
    ELSE IF o.identifier_type = "handle" THEN o.identifier ELSE ""

\* The loop adding a fallback profile under the rule's key when the key is
\* not in includeByKey and a handle is available.
RECURSIVE includeFallbacks(_, _)
includeFallbacks(m, rules) ==
    IF rules = <<>> THEN m
    ELSE LET o == Head(rules)
             fallbackKey == ruleKey(o)
             handle == fallbackHandle(o)
         IN  includeFallbacks(
                 IF fallbackKey \notin DOMAIN m /\ handle # ""
                 THEN [k \in DOMAIN m \cup {fallbackKey} |->
                          IF k = fallbackKey THEN minimalProfile(handle) ELSE m[k]]
                 ELSE m,
                 Tail(rules))

includeByKey(rules, found) == includeFallbacks(includeByKeyResolved(rules, found), rules)

\* new Set of the exclude rules' keys
excludeKeys(ex) == {ruleKey(o) : o \in ex}

isExcluded(p, ex) ==
    \/ p.did # "" /\ DidKey(p.did) \in excludeKeys(ex)
    \/ p.handle # "" /\ HandleKey(p.handle) \in excludeKeys(ex)

\* o.bypass_eligibility ? {eligible: true, ...} : computeEligibility(p)
includeEligibility(o, p) ==
    IF o.bypass_eligibility THEN BypassEligibility ELSE computeEligibility(p)

\* Step 3: the include list, honouring excludes and bypass_eligibility.
RECURSIVE selectedInclude(_, _, _)
selectedInclude(rules, m, ex) ==
    IF rules = <<>> THEN <<>>
    ELSE LET o == Head(rules)
             key == ruleKey(o)
             rest == selectedInclude(Tail(rules), m, ex)
         IN  IF key \notin DOMAIN m THEN rest
             ELSE IF isExcluded(m[key], ex) THEN rest
             ELSE IF ~includeEligibility(o, m[key]).eligible THEN rest
             ELSE <<[profile |-> m[key], eligibility |-> includeEligibility(o, m[key])]>> \o rest

\* Step 4: the eligible base list, without the excluded and the included.
RECURSIVE selectedBase(_, _, _)
selectedBase(base, included, ex) ==
    IF base = <<>> THEN <<>>
    ELSE LET p == Head(base)
             rest == selectedBase(Tail(base), included, ex)
             alreadyIncluded == \E i \in 1..Len(included) : keyOf(included[i].profile) = keyOf(p)
         IN  IF isExcluded(p, ex) \/ alreadyIncluded \/ ~computeEligibility(p).eligible
             THEN rest
             ELSE <<[profile |-> p, eligibility |-> computeEligibility(p)]>> \o rest

\* selectEligibleAccounts of the Bluesky service
selectEligibleAccounts(base, rules, ex, found, cap) ==
    LET included == selectedInclude(rules, includeByKey(rules, found), ex)
    IN  MergeAndCap(included, selectedBase(base, included, ex), cap)

(***************************************************************************)
(* Account selector: Twitter.                                              *)
(***************************************************************************)
IdKey(u) == [by |-> "id", v |-> u]

\* keyOf: `id:<user_id>` when present, else `handle:<handle>`
tw_keyOf(p) == IF p.user_id # "" THEN IdKey(p.user_id) ELSE HandleKey(p.handle)

\* o.identifier_type === 'user_id' ? `id:${o.identifier}` : `handle:${o.identifier}`
tw_ruleKey(o) ==
    IF o.identifier_type = "user_id" THEN IdKey(o.identifier) ELSE HandleKey(o.identifier)

tw_excludeKeys(ex) == {tw_ruleKey(o) : o \in ex}

tw_isExcluded(p, ex) ==
    \/ p.user_id # "" /\ IdKey(p.user_id) \in tw_excludeKeys(ex)
    \/ p.handle # "" /\ HandleKey(p.handle) \in tw_excludeKeys(ex)

\* The minimal profile an include rule resolves to.
tw_includeProfile(o) ==
    IF o.identifier_type = "user_id"
    THEN LET h == IF o.handle # "" THEN o.handle ELSE o.identifier
         IN  [user_id |-> o.identifier, handle |-> h, displayName |-> h,
              followersCount |-> None, postsCount |-> None, createdAt |-> None]
    ELSE [user_id |-> "", handle |-> o.identifier, displayName |-> o.identifier,
          followersCount |-> None, postsCount |-> None, createdAt |-> None]

\* includeByKey: one entry per rule key, a later rule replacing an earlier one
RECURSIVE tw_includeByKey(_, _)
tw_includeByKey(m, rules) ==
    IF rules = <<>> THEN m
    ELSE LET o == Head(rules)
             key == tw_ruleKey(o)
         IN  tw_includeByKey(
                 [k \in DOMAIN m \cup {key} |-> IF k = key THEN tw_includeProfile(o) ELSE m[k]],
                 Tail(rules))

tw_includeEligibility(o, p) ==
    IF o.bypass_eligibility THEN BypassEligibility ELSE tw_computeEligibility(p)

RECURSIVE tw_selectedInclude(_, _, _)
tw_selectedInclude(rules, m, ex) ==
    IF rules = <<>> THEN <<>>
    ELSE LET o == Head(rules)
             key == tw_ruleKey(o)
             rest == tw_selectedInclude(Tail(rules), m, ex)
         IN  IF key \notin DOMAIN m THEN rest
             ELSE IF tw_isExcluded(m[key], ex) THEN rest
             ELSE IF ~tw_includeEligibility(o, m[key]).eligible THEN rest
             ELSE <<[profile |-> m[key], eligibility |-> tw_includeEligibility(o, m[key])]>> \o rest

RECURSIVE tw_selectedBase(_, _, _)
tw_selectedBase(base, included, ex) ==
    IF base = <<>> THEN <<>>
    ELSE LET p == Head(base)
             rest == tw_selectedBase(Tail(base), included, ex)
             alreadyIncluded ==
                 \E i \in 1..Len(included) : tw_keyOf(included[i].profile) = tw_keyOf(p)
         IN  IF tw_isExcluded(p, ex) \/ alreadyIncluded \/ ~tw_computeEligibility(p).eligible
             THEN rest
             ELSE <<[profile |-> p, eligibility |-> tw_computeEligibility(p)]>> \o rest

\* selectEligibleAccounts of the Twitter service
tw_selectEligibleAccounts(base, rules, ex, cap) ==
    LET included == tw_selectedInclude(rules, tw_includeByKey(<<>>, rules), ex)
    IN  MergeAndCap(included, tw_selectedBase(base, included, ex), cap)

(***************************************************************************)
(* Account selector: one call.                                             *)
(***************************************************************************)
\* The allowlist as resolved: Bluesky profiles as the AppView returns them,
\* Twitter profiles as resolveAllowlistProfiles builds them from the handles.
BaseLists(pf) ==
    {[i \in 1..Len(t) |->
         IF pf = "bsky" THEN Directory[t[i]] ELSE tw_resolveAllowlistProfile(Directory[t[i]].handle)] :
       t \in DistinctSeqs(Accounts)}

\* The getProfiles call for the includes fails, or returns every account.
LookupResults(pf) == IF pf = "bsky" THEN {{}, Accounts} ELSE {{}}

SelInit ==
    /\ selPc = "input"
    /\ platform \in Platforms
    /\ maxAccounts \in 1..MaxCap
    /\ baseProfiles \in BaseLists(platform)
    /\ inc \in SeqsUpTo(IncludeRules(platform), MaxRules)
    /\ exc \in {ex \in SUBSET ExcludeRules(platform) : Cardinality(ex) + Len(inc) <= MaxRules}
    /\ lookup \in LookupResults(platform)
    /\ selOut = <<>>
    /\ ovTable = <<>>
    /\ matchId = NoMatch
    /\ caller = "none"

SelectBsky ==
    /\ selPc = "input"
    /\ platform = "bsky"
    /\ selOut' = selectEligibleAccounts(baseProfiles, inc, exc, lookup, maxAccounts)
    /\ selPc' = "done"
    /\ UNCHANGED <<platform, maxAccounts, baseProfiles, inc, exc, lookup>>
    /\ UNCHANGED <<ovTable, matchId, caller>>
    /\ UNCHANGED <<streamVars, anVars, routeVars>>

SelectTwitter ==
    /\ selPc = "input"
    /\ platform = "twitter"
    /\ selOut' = tw_selectEligibleAccounts(baseProfiles, inc, exc, maxAccounts)
    /\ selPc' = "done"
    /\ UNCHANGED <<platform, maxAccounts, baseProfiles, inc, exc, lookup>>
    /\ UNCHANGED <<ovTable, matchId, caller>>
    /\ UNCHANGED <<streamVars, anVars, routeVars>>

SelOff ==
    /\ selPc = "off"
    /\ platform = "bsky"
    /\ maxAccounts = 0
    /\ baseProfiles = <<>>
    /\ inc = <<>>
    /\ exc = {}
    /\ lookup = {}
    /\ selOut = <<>>
    /\ ovTable = <<>>
    /\ matchId = NoMatch
    /\ caller = "none"

AnOff ==
    /\ anPc = "off"
    /\ anIn = [kind |-> "none"]
    /\ anOut = [kind |-> "none"]

\* The requests the summaries route can hold in flight at once.
Slots == {"s1", "s2"}
\* No request in the slot.
IdleSlot ==
    [pc |-> "idle", posts_count |-> 0, joined |-> 0, gate |-> "none", recent |-> 0,
     llm |-> 0, sent |-> 0, audits |-> <<>>, http |-> 0, outcome |-> "none"]
EmptyMap == [k \in {} |-> 0]
NoCall == [matchId |-> "none", at |-> 0, expired |-> {}, kept |-> {}]

SumOff ==
    /\ sumEnv = [apiKey |-> FALSE, audit |-> FALSE]
    /\ sumNow = 0
    /\ SUMMARY_REQ_TIMESTAMPS = <<>>
    /\ slot = [s \in Slots |-> IdleSlot]
    /\ arrivals = 0
    /\ admitted = <<>>

ComOff ==
    /\ COMMENTS_MEM = EmptyMap
    /\ COMMENTS_TTL = EmptyMap
    /\ comNow = 0
    /\ comCalls = 0
    /\ comLast = NoCall

RouteOff == SumOff /\ ComOff

\* The request has arrived; nothing of the stream exists yet.
Init ==
    /\ pc = "new"
    /\ \E r \in Requests : hdr = r[1] /\ qp = r[2]
    /\ forceWindow \in ForceWindows
    /\ tick = 0
    /\ arg = 0
    /\ winState = "pre"
    /\ stopped = FALSE
    /\ closer = "none"
    /\ pinger = "none"
    /\ delayTimer = "none"
    /\ ctrl = "open"
    /\ sink = <<>>
    /\ cancelled = FALSE
    /\ SelOff
    /\ AnOff
    /\ RouteOff

Next ==
    \/ Start
    \/ TickDone
    \/ TickFail
    \/ DelayElapsed
    \/ Heartbeat
    \/ CapFires
    \/ Cancel

Spec == Init /\ [][Next]_vars

StreamOff ==
    /\ pc = "off"
    /\ hdr = Absent
    /\ qp = Absent
    /\ forceWindow = NoWindow
    /\ tick = 0
    /\ arg = 0
    /\ winState = "pre"
    /\ stopped = FALSE
    /\ closer = "none"
    /\ pinger = "none"
    /\ delayTimer = "none"
    /\ ctrl = "open"
    /\ sink = <<>>
    /\ cancelled = FALSE

SelNext ==
    \/ SelectBsky
    \/ SelectTwitter

\* Nothing of the stream exists while the selector runs.
SelStart == StreamOff /\ AnOff /\ RouteOff /\ SelInit

SelSpec == SelStart /\ [][SelNext]_vars

(***************************************************************************)
(* Override store and the callers of the selector.                         *)
(***************************************************************************)
MaxRows == 2    \* rows of the override table

Matches == {"M", "N"}

\* Rows of the override table: include (with or without bypass) or exclude,
\* by native id with the handle declared, global or scoped to a match.
OverrideRows(pf) ==
    LET idType == IF pf = "bsky" THEN "did" ELSE "user_id"
        row(k, a, b, m) ==
            [kind |-> k, identifier |-> Directory[a].did, identifier_type |-> idType,
             handle |-> Directory[a].handle, bypass_eligibility |-> b,
             scope |-> IF m = NoMatch THEN "global" ELSE "match", match_id |-> m]
    IN  {row("include", a, b, m) :
            a \in RuleAccounts, b \in BOOLEAN, m \in Matches \cup {NoMatch}}
        \cup
        {row("exclude", a, FALSE, m) : a \in RuleAccounts, m \in Matches \cup {NoMatch}}

\* The rows getOverrides loads: the global ones, and with a matchId the ones
\* scoped to that match.
InScope(r, m) == r.scope = "global" \/ (m # NoMatch /\ r.scope = "match" /\ r.match_id = m)

includeRule(r) ==
    [identifier |-> r.identifier, identifier_type |-> r.identifier_type,
     handle |-> r.handle, bypass_eligibility |-> r.bypass_eligibility]
excludeRule(r) == [identifier |-> r.identifier, identifier_type |-> r.identifier_type]

RECURSIVE includesOf(_, _)
includesOf(table, m) ==
    IF table = <<>> THEN <<>>
    ELSE IF Head(table).kind = "include" /\ InScope(Head(table), m)
         THEN <<includeRule(Head(table))>> \o includesOf(Tail(table), m)
         ELSE includesOf(Tail(table), m)

\* getOverrides({platform, matchId}) -> {include, exclude}
getOverrides(table, m) ==
    [include |-> includesOf(table, m),
     exclude |-> {excludeRule(table[i]) :
                    i \in {j \in 1..Len(table) : table[j].kind = "exclude" /\ InScope(table[j], m)}}]

\* selectEligibleAccounts(params) of the platform, params.matchId ?? null = m
selectFor(pf, table, m, base, found, cap) ==
    LET ov == getOverrides(table, m)
    IN  IF pf = "bsky" THEN selectEligibleAccounts(base, ov.include, ov.exclude, found, cap)
        ELSE tw_selectEligibleAccounts(base, ov.include, ov.exclude, cap)

\* accounts.map(a => ({did, handle, displayName}))
accountsUsed(accounts) ==
    [i \in 1..Len(accounts) |->
        [did |-> accounts[i].profile.did, handle |-> accounts[i].profile.handle,
         displayName |-> accounts[i].profile.displayName]]

OvInit ==
    /\ selPc = "input"
    /\ platform \in Platforms
    /\ maxAccounts \in 1..MaxCap
    /\ baseProfiles \in {b \in BaseLists(platform) : Len(b) = Cardinality(Accounts)}
    /\ ovTable \in SeqsUpTo(OverrideRows(platform), MaxRows)
    /\ matchId = "M"
    /\ lookup \in LookupResults(platform)
    /\ inc = <<>>
    /\ exc = {}
    /\ selOut = <<>>
    /\ caller = "none"

\* A caller passing its match: selectEligibleAccounts({ matchId }).
SelectForMatch ==
    /\ selPc = "input"
    /\ inc' = getOverrides(ovTable, matchId).include
    /\ exc' = getOverrides(ovTable, matchId).exclude
    /\ selOut' = selectFor(platform, ovTable, matchId, baseProfiles, lookup, maxAccounts)
    /\ selPc' = "done"
    /\ caller' = "selector"
    /\ UNCHANGED <<platform, maxAccounts, baseProfiles, lookup, ovTable, matchId>>
    /\ UNCHANGED <<streamVars, anVars, routeVars>>

\* buildTick(matchId, window, tick, sinceMinutes), its first statement:
\* const accounts = await selectEligibleAccounts().
BuildTickAccounts ==
    /\ selPc = "input"
    /\ platform = "bsky"
    /\ inc' = getOverrides(ovTable, NoMatch).include
    /\ exc' = getOverrides(ovTable, NoMatch).exclude
    /\ selOut' = selectFor("bsky", ovTable, NoMatch, baseProfiles, lookup, maxAccounts)
    /\ selPc' = "done"
    /\ caller' = "buildTick"
    /\ UNCHANGED <<platform, maxAccounts, baseProfiles, lookup, ovTable, matchId>>
    /\ UNCHANGED <<streamVars, anVars, routeVars>>

\* GET of summaries/latest for matchId: accounts = await selectEligibleAccounts().
SummaryAccounts ==
    /\ selPc = "input"
    /\ platform = "bsky"
    /\ inc' = getOverrides(ovTable, NoMatch).include
    /\ exc' = getOverrides(ovTable, NoMatch).exclude
    /\ selOut' = selectFor("bsky", ovTable, NoMatch, baseProfiles, lookup, maxAccounts)
    /\ selPc' = "done"
    /\ caller' = "summary"
    /\ UNCHANGED <<platform, maxAccounts, baseProfiles, lookup, ovTable, matchId>>
    /\ UNCHANGED <<streamVars, anVars, routeVars>>

OvNext ==
    \/ SelectForMatch
    \/ BuildTickAccounts
    \/ SummaryAccounts

OvStart == StreamOff /\ AnOff /\ RouteOff /\ OvInit

OvSpec == OvStart /\ [][OvNext]_vars

(***************************************************************************)
(* Numbers: the quotients and sums of IEEE 754 doubles, for the ratios.    *)
(* A positive double is its exponent e and its significand m, Precision    *)
(* bits with the leading one first: the value is 1.m[2]m[3]... * 2^e.      *)
(***************************************************************************)
Precision == 53

Zeros(n) == [i \in 1..n |-> 0]
FloatZero == [zero |-> TRUE, e |-> 0, m |-> Zeros(Precision)]
FloatOne == [zero |-> FALSE, e |-> 0, m |-> <<1>> \o Zeros(Precision - 1)]

\* bits + 1, for bits that are not all ones
IncBits(b) ==
    LET last == CHOOSE i \in 1..Len(b) : b[i] = 0 /\ \A j \in i+1..Len(b) : b[j] = 1
    IN  [i \in 1..Len(b) |-> IF i < last THEN b[i] ELSE IF i = last THEN 1 ELSE 0]

\* Round to nearest, ties to even: b holds the exact bits, leading one first.
RoundBits(b, e) ==
    LET keep == SubSeq(b, 1, Precision)
        rest == SubSeq(b, Precision + 1, Len(b))
        roundUp == /\ rest # <<>>
                   /\ rest[1] = 1
                   /\ ((\E i \in 2..Len(rest) : rest[i] = 1) \/ keep[Precision] = 1)
    IN  IF ~roundUp THEN [zero |-> FALSE, e |-> e, m |-> keep]
        ELSE IF \A i \in 1..Precision : keep[i] = 1
             THEN [zero |-> FALSE, e |-> e + 1, m |-> <<1>> \o Zeros(Precision - 1)]
             ELSE [zero |-> FALSE, e |-> e, m |-> IncBits(keep)]

\* The next n bits of rem / t (rem < t), then one bit telling whether a
\* remainder is left.
RECURSIVE DivBits(_, _, _)
DivBits(rem, t, n) ==
    IF n = 0 THEN <<IF rem > 0 THEN 1 ELSE 0>>
    ELSE IF 2 * rem >= t THEN <<1>> \o DivBits(2 * rem - t, t, n - 1)
         ELSE <<0>> \o DivBits(2 * rem, t, n - 1)

\* The least k with c * 2^k >= t
RECURSIVE NormShift(_, _)
NormShift(c, t) == IF c >= t THEN 0 ELSE 1 + NormShift(2 * c, t)

RECURSIVE Pow2(_)
Pow2(k) == IF k = 0 THEN 1 ELSE 2 * Pow2(k - 1)

\* c / t for integers 0 <= c <= t, t > 0
FloatDiv(c, t) ==
    IF c = 0 THEN FloatZero
    ELSE LET k == NormShift(c, t)
         IN  RoundBits(<<1>> \o DivBits(c * Pow2(k) - t, t, Precision), 0 - k)

\* a + b over bit lists of one length, from bit i down to the first, c the
\* carry into bit i and low the bits of the sum after bit i; the result is
\* one bit longer than a
RECURSIVE AddBits(_, _, _, _, _)
AddBits(a, b, i, c, low) ==
    IF i = 0 THEN <<c>> \o low
    ELSE AddBits(a, b, i - 1, (a[i] + b[i] + c) \div 2, <<(a[i] + b[i] + c) % 2>> \o low)

\* x + y for doubles that are zero or positive
FloatAdd(x, y) ==
    IF x.zero THEN y
    ELSE IF y.zero THEN x
    ELSE LET hi == IF x.e >= y.e THEN x ELSE y
             lo == IF x.e >= y.e THEN y ELSE x
             d == hi.e - lo.e
             sum == AddBits(hi.m \o Zeros(d), Zeros(d) \o lo.m, Precision + d, 0, <<>>)
         IN  IF sum[1] = 1 THEN RoundBits(sum, hi.e + 1) ELSE RoundBits(Tail(sum), hi.e)

(***************************************************************************)
(* Window analytics: sentiment.                                            *)
(***************************************************************************)
\* typeof res?.score === 'number' ? res.score : 0
scoreOf(p) == IF p.score = None THEN 0 ELSE p.score[1]

RECURSIVE CountPosts(_, _)
CountPosts(posts, sign) ==
    IF posts = <<>> THEN 0
    ELSE (IF sign = "pos" /\ scoreOf(Head(posts)) > 0 THEN 1
          ELSE IF sign = "neg" /\ scoreOf(Head(posts)) < 0 THEN 1
          ELSE IF sign = "neu" /\ scoreOf(Head(posts)) = 0 THEN 1
          ELSE 0) + CountPosts(Tail(posts), sign)

\* As summarizeSentiment, with a neutral post counted as positive too.
summarizeSentimentNeutralTwice(posts) ==
    LET posCount == CountPosts(posts, "pos") + CountPosts(posts, "neu")
        negCount == CountPosts(posts, "neg")
        neuCount == CountPosts(posts, "neu")
        total == Len(posts)
    IN  IF total = 0
        THEN [ratios |-> [pos |-> FloatZero, neg |-> FloatZero, neu |-> FloatZero],
              counts |-> [total |-> 0, pos |-> 0, neg |-> 0, neu |-> 0]]
        ELSE [ratios |-> [pos |-> FloatDiv(Min(posCount, total), total),
                          neg |-> FloatDiv(negCount, total),
                          neu |-> FloatDiv(neuCount, total)],
              counts |-> [total |-> Len(posts), pos |-> posCount, neg |-> negCount,
                          neu |-> neuCount]]

summarizeSentiment(posts) ==
    LET posCount == CountPosts(posts, "pos")
        negCount == CountPosts(posts, "neg")
        neuCount == CountPosts(posts, "neu")
        total == Len(posts)
    IN  IF total = 0
        THEN [ratios |-> [pos |-> FloatZero, neg |-> FloatZero, neu |-> FloatZero],
              counts |-> [total |-> 0, pos |-> 0, neg |-> 0, neu |-> 0]]
        ELSE [ratios |-> [pos |-> FloatDiv(posCount, total),
                          neg |-> FloatDiv(negCount, total),
                          neu |-> FloatDiv(neuCount, total)],
              counts |-> [total |-> Len(posts), pos |-> posCount, neg |-> negCount,
                          neu |-> neuCount]]

\* The sentiment and volume fields of the TickSummary buildTick returns.
tickSentiment(posts) ==
    LET sentiment == summarizeSentiment(posts)
    IN  [sentiment |-> [pos |-> sentiment.ratios.pos, neu |-> sentiment.ratios.neu,
                        neg |-> sentiment.ratios.neg, counts |-> sentiment.counts],
         volume |-> Len(posts)]

(***************************************************************************)
(* Window analytics: topics.  A text is the list of its characters.        *)
(***************************************************************************)
TopicsLimit == 10

\* String.prototype.toLowerCase
lowerChar(c) == CASE c = "A" -> "a" [] c = "B" -> "b" [] OTHER -> c
toLowerCase(s) == [i \in 1..Len(s) |-> lowerChar(s[i])]

\* String.prototype.includes
includes(s, sub) ==
    \E i \in 0..(Len(s) - Len(sub)) : SubSeq(s, i + 1, i + Len(sub)) = sub

\* Map.prototype.set on a map kept as the list of its entries, in insertion
\* order: a key already there keeps its place.
mapSet(map, key, value) ==
    IF \E i \in 1..Len(map) : map[i].key = key
    THEN [i \in 1..Len(map) |-> IF map[i].key = key THEN [key |-> key, value |-> value]
                                 ELSE map[i]]
    ELSE Append(map, [key |-> key, value |-> value])

\* counts.get(key) ?? 0
mapGetOrZero(map, key) ==
    IF \E i \in 1..Len(map) : map[i].key = key
    THEN (CHOOSE e \in {map[i] : i \in 1..Len(map)} : e.key = key).value
    ELSE 0

\* for (const k of keywords) origByLower.set(k.toLowerCase(), k)
RECURSIVE origByLower(_, _)
origByLower(map, keywords) ==
    IF keywords = <<>> THEN map
    ELSE origByLower(mapSet(map, toLowerCase(Head(keywords)), Head(keywords)), Tail(keywords))

\* The number of places where sub occurs in s.
occurrencesIn(lower, kwLower) ==
    Cardinality({i \in 0..(Len(lower) - Len(kwLower)) :
                    SubSeq(lower, i + 1, i + Len(kwLower)) = kwLower})

\* if (lower.includes(kwLower)): what the post adds to the keyword's count
matchesIn(lower, kwLower) == IF includes(lower, kwLower) THEN 1 ELSE 0

\* The inner loop: one post against every keyword, in the map's order.
RECURSIVE countPost(_, _, _)
countPost(counts, lower, entries) ==
    IF entries = <<>> THEN counts
    ELSE LET kwLower == Head(entries).key
             original == Head(entries).value
             n == matchesIn(lower, kwLower)
         IN  countPost(IF n > 0 THEN mapSet(counts, original, mapGetOrZero(counts, original) + n)
                       ELSE counts,
                       lower, Tail(entries))

\* The outer loop over the posts.
RECURSIVE countPosts(_, _, _)
countPosts(counts, posts, entries) ==
    IF posts = <<>> THEN counts
    ELSE countPosts(countPost(counts, toLowerCase(Head(posts).text), entries),
                    Tail(posts), entries)

\* arr.sort((a, b) => b.count - a.count): a stable sort by descending count
\* As InsertByCount, with an entry placed before the entries of equal count.
RECURSIVE InsertByCountUnstable(_, _)
InsertByCountUnstable(sorted, a) ==
    IF sorted = <<>> THEN <<a>>
    ELSE IF sorted[Len(sorted)].count > a.count THEN Append(sorted, a)
    ELSE Append(InsertByCountUnstable(SubSeq(sorted, 1, Len(sorted) - 1), a),
                sorted[Len(sorted)])

RECURSIVE InsertByCount(_, _)
InsertByCount(sorted, a) ==
    IF sorted = <<>> THEN <<a>>
    ELSE IF sorted[Len(sorted)].count >= a.count THEN Append(sorted, a)
    ELSE Append(InsertByCount(SubSeq(sorted, 1, Len(sorted) - 1), a), sorted[Len(sorted)])

RECURSIVE SortByCount(_)
SortByCount(s) ==
    IF s = <<>> THEN <<>>
    ELSE InsertByCount(SortByCount(SubSeq(s, 1, Len(s) - 1)), s[Len(s)])

\* extractTopics(posts, keywords)
extractTopics(posts, keywords) ==
    LET counts == countPosts(<<>>, posts, origByLower(<<>>, keywords))
        arr == [i \in 1..Len(counts) |-> [keyword |-> counts[i].key, count |-> counts[i].value]]
        sorted == SortByCount(arr)
    IN  SubSeq(sorted, 1, Min(TopicsLimit, Len(sorted)))

(***************************************************************************)
(* Eligibility and window analytics: one call of a pure function.          *)
(***************************************************************************)
MaxTopicPosts == 2  \* posts handed to extractTopics

\* Post texts: every text of at most two characters over a, A and b, and a
\* longer one in which many keywords occur.
Letters == {"a", "A", "b"}
LongText == <<"a", "a", "a", "B", "b", "b", "a", "b", "a", "a", "b">>
Texts == {<<>>} \cup {<<c>> : c \in Letters} \cup {<<c, d>> : c, d \in Letters}
            \cup {LongText}

\* Keyword lists as configured: short lists, also with two casings of one
\* keyword, and a list of more keywords than the limit.
ManyKeywords ==
    << <<"a">>, <<"b">>, <<"A", "a">>, <<"A", "b">>, <<"b", "a">>, <<"b", "B">>,
       <<"a", "a", "b">>, <<"a", "b", "b">>, <<"b", "b", "a">>, <<"b", "a", "a">>,
       <<"a", "b", "a">>, <<"b", "a", "b">>, <<"b", "b", "b", "b">> >>
KeywordLists ==
    SeqsUpTo({<<"a">>, <<"A">>, <<"b">>, <<"A", "b">>}, 2) \cup {ManyKeywords}

TopicInputs ==
    [kind : {"topics"}, posts : SeqsUpTo([text : Texts], MaxTopicPosts),
     keywords : KeywordLists]

MaxPosts == 6       \* posts handed to summarizeSentiment

\* The score winkSentiment gives a post's text, None when it gives none.
Scores == {None, Some(-1), Some(0), Some(2)}

SentimentInputs ==
    [kind : {"posts"}, posts : SeqsUpTo([score : Scores], MaxPosts)]

MaxFollowers == 4   \* follower counts 0..MaxFollowers are tried

\* Account ages in days (negative: a createdAt in the future).
AgeDays == {-200, 0, 20, 179, 180, 181, 400}

ProfileInputs ==
    [kind : {"profile"}, platform : Platforms,
     followersCount : {None} \cup {Some(n) : n \in 0..MaxFollowers},
     createdAt : {None} \cup {Some(d) : d \in AgeDays}]

AnInit ==
    /\ anPc = "input"
    /\ anIn \in ProfileInputs \cup SentimentInputs \cup TopicInputs
    /\ anOut = [kind |-> "none"]

\* computeEligibility(profile) of the Bluesky service
EvalEligibility ==
    /\ anPc = "input"
    /\ anIn.kind = "profile"
    /\ anIn.platform = "bsky"
    /\ anOut' = computeEligibility(anIn)
    /\ anPc' = "done"
    /\ UNCHANGED anIn
    /\ UNCHANGED <<streamVars, selVars, routeVars>>

\* computeEligibility(profile) of the Twitter service
TwEvalEligibility ==
    /\ anPc = "input"
    /\ anIn.kind = "profile"
    /\ anIn.platform = "twitter"
    /\ anOut' = tw_computeEligibility(anIn)
    /\ anPc' = "done"
    /\ UNCHANGED anIn
    /\ UNCHANGED <<streamVars, selVars, routeVars>>

\* buildTick: summarizeSentiment(posts) and the TickSummary built from it
BuildTickSentiment ==
    /\ anPc = "input"
    /\ anIn.kind = "posts"
    /\ anOut' = tickSentiment(anIn.posts)
    /\ anPc' = "done"
    /\ UNCHANGED anIn
    /\ UNCHANGED <<streamVars, selVars, routeVars>>

\* extractTopics(posts, keywords)
ExtractTopics ==
    /\ anPc = "input"
    /\ anIn.kind = "topics"
    /\ anOut' = extractTopics(anIn.posts, anIn.keywords)
    /\ anPc' = "done"
    /\ UNCHANGED anIn
    /\ UNCHANGED <<streamVars, selVars, routeVars>>

AnNext ==
    \/ EvalEligibility
    \/ TwEvalEligibility
    \/ BuildTickSentiment
    \/ ExtractTopics

AnStart == StreamOff /\ SelOff /\ RouteOff /\ AnInit

AnSpec == AnStart /\ [][AnNext]_vars

(***************************************************************************)
(* Fetching the posts of a tick.  A timestamp is kept as the age of the    *)
(* item in minutes at the time of the call.                                *)
(***************************************************************************)
DEFAULT_RECENCY_MINUTES == 15
RetryFloorMinutes == 60

MaxFeedItems == 1   \* items in one author feed

\* record?.createdAt || post?.indexedAt: missing, not a time, or a time
NoTime == [t |-> "missing", age |-> 0]
BadTime == [t |-> "invalid", age |-> 0]
TimeAgo(n) == [t |-> "time", age |-> n]
FeedItems == [createdAt : {NoTime, BadTime, TimeAgo(30), TimeAgo(100)}, text : {"", "t"}]

\* What getAuthorFeed gives for an actor: a failure, or a feed.
FeedFailure == [failed |-> TRUE, feed |-> <<>>]
FeedOf(items) == [failed |-> FALSE, feed |-> items]
FeedResults == {FeedFailure} \cup {FeedOf(f) : f \in SeqsUpTo(FeedItems, MaxFeedItems)}

\* The selected accounts: x and y have an actor (DID or handle), z has none.
FetchActors == {"x", "y"}
actorOf(acct) == IF acct = "z" THEN "" ELSE acct
AccountLists == {<<>>, <<"x">>, <<"x", "y">>, <<"y", "x">>, <<"z", "x">>}
SinceMinutes == {0, 15, 90}

\* Number.isFinite(minutes) && minutes > 0 ? minutes : DEFAULT_RECENCY_MINUTES
validatedMinutes(sinceMinutes) ==
    IF sinceMinutes > 0 THEN sinceMinutes ELSE DEFAULT_RECENCY_MINUTES

\* The item is skipped: no timestamp, a time before `since`, or no text.
skipsItem(item, minutes) ==
    \/ item.createdAt.t = "missing"
    \/ item.createdAt.t = "time" /\ item.createdAt.age > minutes
    \/ item.text = ""

\* The loop over one feed.
RECURSIVE feedPosts(_, _, _)
feedPosts(acct, feed, minutes) ==
    IF feed = <<>> THEN <<>>
    ELSE IF skipsItem(Head(feed), minutes) THEN feedPosts(acct, Tail(feed), minutes)
    ELSE <<[author |-> actorOf(acct), text |-> Head(feed).text,
            createdAt |-> Head(feed).createdAt]>> \o feedPosts(acct, Tail(feed), minutes)

RECURSIVE fetchLoop(_, _, _, _)

\* As feedFailed, with the failure ending the whole call.
feedFailedAborts(accounts, feeds, minutes, out) == [threw |-> TRUE, posts |-> <<>>]

\* catch {}: the account is skipped, the loop goes on with the next one.
feedFailed(accounts, feeds, minutes, out) == fetchLoop(Tail(accounts), feeds, minutes, out)

\* for (const acct of accounts), out the posts pushed so far
fetchLoop(accounts, feeds, minutes, out) ==
    IF accounts = <<>> THEN [threw |-> FALSE, posts |-> out]
    ELSE LET acct == Head(accounts)
         IN  IF actorOf(acct) = "" THEN fetchLoop(Tail(accounts), feeds, minutes, out)
             ELSE IF feeds[acct].failed THEN feedFailed(accounts, feeds, minutes, out)
             ELSE fetchLoop(Tail(accounts), feeds, minutes,
                            out \o feedPosts(acct, feeds[acct].feed, minutes))

\* fetchRecentPostsForAccounts(accounts, sinceMinutes)
fetchRecentPostsForAccounts(accounts, feeds, sinceMinutes) ==
    fetchLoop(accounts, feeds, validatedMinutes(sinceMinutes), <<>>)

SyntheticPost(accounts) ==
    [author |-> actorOf(accounts[1]), text |-> "Arsenal synthetic test post COYG!",
     createdAt |-> TimeAgo(0)]

\* As retryMinutes, with the requested lookback used again.
retryMinutesSame(sinceMinutes) == sinceMinutes

\* Math.max(sinceMinutes, 60)
retryMinutes(sinceMinutes) == Max(sinceMinutes, RetryFloorMinutes)

\* buildTick, from the first fetch to the posts handed to the analytics:
\* fetches lists the lookbacks of the fetch calls made, in order.
buildTickPosts(accounts, feeds, sinceMinutes, testEnv) ==
    LET first == fetchRecentPostsForAccounts(accounts, feeds, sinceMinutes).posts
        retry == Len(first) = 0 /\ Len(accounts) > 0
        second == IF retry
                  THEN fetchRecentPostsForAccounts(accounts, feeds,
                                                   retryMinutes(sinceMinutes)).posts
                  ELSE first
        posts == IF Len(second) = 0 /\ Len(accounts) > 0 /\ testEnv
                 THEN <<SyntheticPost(accounts)>> ELSE second
    IN  [fetches |-> IF retry THEN <<sinceMinutes, retryMinutes(sinceMinutes)>>
                     ELSE <<sinceMinutes>>,
         posts |-> posts]

FetchInputs ==
    [kind : {"fetch"}, accounts : AccountLists, feeds : [FetchActors -> FeedResults],
     sinceMinutes : SinceMinutes, testEnv : BOOLEAN]

FetchInit ==
    /\ anPc = "input"
    /\ anIn \in FetchInputs
    /\ anOut = [kind |-> "none"]

\* One call of fetchRecentPostsForAccounts.
FetchRecentPosts ==
    /\ anPc = "input"
    /\ anIn.kind = "fetch"
    /\ anOut' = [call |-> "fetch"] @@
                   fetchRecentPostsForAccounts(anIn.accounts, anIn.feeds, anIn.sinceMinutes)
    /\ anPc' = "done"
    /\ UNCHANGED anIn
    /\ UNCHANGED <<streamVars, selVars, routeVars>>

\* buildTick: the fetch, the retry and the synthetic post.
BuildTickPosts ==
    /\ anPc = "input"
    /\ anIn.kind = "fetch"
    /\ anOut' = [call |-> "buildTick"] @@
                   buildTickPosts(anIn.accounts, anIn.feeds, anIn.sinceMinutes, anIn.testEnv)
    /\ anPc' = "done"
    /\ UNCHANGED anIn
    /\ UNCHANGED <<streamVars, selVars, routeVars>>

FetchNext ==
    \/ FetchRecentPosts
    \/ BuildTickPosts

FetchStart == StreamOff /\ SelOff /\ RouteOff /\ FetchInit

FetchSpec == FetchStart /\ [][FetchNext]_vars

(***************************************************************************)
(* Summaries route: GET of summaries/latest.  Texts are kept by their      *)
(* lengths; a request is followed from its arrival to its response, one    *)
(* step per stretch of code between two awaits.                            *)
(***************************************************************************)
RATE_WINDOW_MS == 60000
RATE_MAX == 4
MAX_POSTS == 150
MAX_CHARS == 12000
MAX_POSTS_ENV == MAX_POSTS
MAX_CHARS_ENV == MAX_CHARS

\* The budget settings of budget.test.ts.
modelMaxTokens == 1000
reservedResponseTokens == 600
charsPerToken == 1

MaxRequests == 6     \* requests received by the process
MaxClockTicks == 2   \* advances of the clock, ClockStep ms each
ClockStep == RATE_WINDOW_MS \div 2

SumPlatforms == {"bsky", "combined", "twitter"}
\* What fetchRecentPostsForAccounts resolves to: n posts of one handle, as
\* in budget.test.ts (200 posts of 50 characters by user1.example).
PostBatches == {[n |-> 200, handle |-> 13, text |-> 50]}
\* 'Platform ingestion not yet implemented for this platform in the summary API.'
PlaceholderLength == 76

\* `[${new Date(p.createdAt).toISOString()}] @${p.author.handle}: ${p.text}`
lineLength(batch) == 1 + 24 + 1 + 2 + batch.handle + 2 + batch.text

\* texts.join('\n'), count texts of one length
joinLength(count, len) == IF count = 0 THEN 0 ELSE count * len + (count - 1)

\* s.slice(0, n).length
sliceLength(len, n) == Min(len, n)

\* now - ts < RATE_WINDOW_MS with half the window.
keepsTimestampHalfWindow(now, ts) == now - ts < RATE_WINDOW_MS \div 2

\* now - ts < RATE_WINDOW_MS
keepsTimestamp(now, ts) == now - ts < RATE_WINDOW_MS

\* SUMMARY_REQ_TIMESTAMPS.filter(...)
filterTimestamps(timestamps, now) ==
    SelectSeq(timestamps, LAMBDA ts : keepsTimestamp(now, ts))

\* As audit, with the row inserted twice.
auditTwice(rec, status) ==
    IF ~sumEnv.audit THEN rec
    ELSE LET row == [status |-> status, posts_count |-> rec.posts_count,
                     chars_count |-> sliceLength(rec.joined, MAX_CHARS_ENV)]
         IN  [rec EXCEPT !.audits = @ \o <<row, row>>]

\* audit(status): one row for the summary_requests table, when configured
audit(rec, status) ==
    IF ~sumEnv.audit THEN rec
    ELSE [rec EXCEPT !.audits =
            Append(@, [status |-> status, posts_count |-> rec.posts_count,
                       chars_count |-> sliceLength(rec.joined, MAX_CHARS_ENV)])]

\* The audit row the outer catch inserts itself.
auditFailed(rec) ==
    IF ~sumEnv.audit THEN rec
    ELSE [rec EXCEPT !.audits =
            Append(@, [status |-> "failed", posts_count |-> 0, chars_count |-> 0])]

respond(rec, outcome, http) ==
    [rec EXCEPT !.pc = "done", !.outcome = outcome, !.http = http]

\* The request waits at the await of its audit insert.
awaitingAudit(status) ==
    CASE status = "ok" -> "audit_ok"
      [] status = "rate_limited" -> "audit_rate_limited"
      [] status = "missing_key" -> "audit_missing_key"
      [] status = "timeout" -> "audit_timeout"
      [] OTHER -> "audit_failed"
AuditPcs ==
    {"audit_ok", "audit_rate_limited", "audit_missing_key", "audit_timeout", "audit_failed"}
\* The outcome whose audit insert the request waits for.
outcomeAwaited(p) ==
    CASE p = "audit_ok" -> "ok"
      [] p = "audit_rate_limited" -> "rate_limited"
      [] p = "audit_missing_key" -> "missing_key"
      [] p = "audit_timeout" -> "timeout"
      [] OTHER -> "failed"
\* The status of the Response returned for the outcome.
httpStatus(outcome) ==
    CASE outcome = "ok" -> 200
      [] outcome = "rate_limited" -> 429
      [] outcome = "timeout" -> 504
      [] OTHER -> 500

\* await audit(status) and the return: with the audit store configured the
\* row is posted and the request waits for the insert; without it audit()
\* returns at once and the response follows.
auditThenRespond(rec, status) ==
    IF sumEnv.audit
    THEN [audit(rec, status) EXCEPT !.pc = awaitingAudit(status)]
    ELSE respond(rec, status, httpStatus(status))

\* The admissions within the window ending now, from the history.
RecentAdmissions(now) ==
    Cardinality({i \in 1..Len(admitted) : now - admitted[i] < RATE_WINDOW_MS})

\* From the texts to the next await: the rate limiter, the truncation, the
\* key check and the start of the model call.
AfterTexts(s, posts_count, joined) ==
    LET now == sumNow
        kept == filterTimestamps(SUMMARY_REQ_TIMESTAMPS, now)
        rec == [slot[s] EXCEPT !.posts_count = posts_count, !.joined = joined,
                               !.recent = RecentAdmissions(now)]
    IN  IF Len(kept) >= RATE_MAX
        THEN /\ SUMMARY_REQ_TIMESTAMPS' = kept
             /\ slot' = [slot EXCEPT ![s] = [rec EXCEPT !.pc = "limited", !.gate = "rejected"]]
             /\ UNCHANGED admitted
        ELSE /\ SUMMARY_REQ_TIMESTAMPS' = Append(kept, now)
             /\ admitted' = Append(admitted, now)
             /\ slot' = [slot EXCEPT ![s] =
                   IF ~sumEnv.apiKey
                   THEN [rec EXCEPT !.pc = "nokey", !.gate = "admitted"]
                   ELSE [rec EXCEPT !.pc = "llm", !.gate = "admitted",
                                    !.sent = sliceLength(joined, MAX_CHARS_ENV),
                                    !.llm = @ + 1]]

SumInit ==
    /\ sumEnv \in [apiKey : BOOLEAN, audit : BOOLEAN]
    /\ sumNow = 0
    /\ SUMMARY_REQ_TIMESTAMPS = <<>>
    /\ slot = [s \in Slots |-> IdleSlot]
    /\ arrivals = 0
    /\ admitted = <<>>

\* A request arrives and takes the first free slot: up to the first await.
Arrive(s) ==
    /\ slot[s].pc = "idle"
    /\ s = "s2" => slot["s1"].pc # "idle"
    /\ arrivals < MaxRequests
    /\ arrivals' = arrivals + 1
    /\ \E pf \in SumPlatforms :
          IF pf \in {"bsky", "combined"}
          THEN /\ slot' = [slot EXCEPT ![s] = [IdleSlot EXCEPT !.pc = "fetch"]]
               /\ UNCHANGED <<SUMMARY_REQ_TIMESTAMPS, admitted>>
          ELSE AfterTexts(s, 1, joinLength(1, PlaceholderLength))
    /\ UNCHANGED <<sumEnv, sumNow>>
    /\ UNCHANGED <<streamVars, selVars, anVars, comVars>>

\* selectEligibleAccounts and fetchRecentPostsForAccounts resolve.
Fetched(s) ==
    /\ slot[s].pc = "fetch"
    /\ \E batch \in PostBatches :
          LET count == Min(batch.n, MAX_POSTS_ENV)
          IN  AfterTexts(s, count, joinLength(count, lineLength(batch)))
    /\ UNCHANGED <<sumEnv, sumNow, arrivals>>
    /\ UNCHANGED <<streamVars, selVars, anVars, comVars>>

\* One of them rejects, or a createdAt is not a time and toISOString throws.
FetchThrows(s) ==
    /\ slot[s].pc = "fetch"
    /\ slot' = [slot EXCEPT ![s].pc = "catch"]
    /\ UNCHANGED <<sumEnv, sumNow, SUMMARY_REQ_TIMESTAMPS, arrivals, admitted>>
    /\ UNCHANGED <<streamVars, selVars, anVars, comVars>>

\* The rejected request: notifySlack and audit('rate_limited'), up to the
\* await of the insert.
RateLimited(s) ==
    /\ slot[s].pc = "limited"
    /\ slot' = [slot EXCEPT ![s] = auditThenRespond(@, "rate_limited")]
    /\ UNCHANGED <<sumEnv, sumNow, SUMMARY_REQ_TIMESTAMPS, arrivals, admitted>>
    /\ UNCHANGED <<streamVars, selVars, anVars, comVars>>

\* No OPENAI_API_KEY: notifySlack and audit('missing_key'), up to the await
\* of the insert.
MissingKey(s) ==
    /\ slot[s].pc = "nokey"
    /\ slot' = [slot EXCEPT ![s] = auditThenRespond(@, "missing_key")]
    /\ UNCHANGED <<sumEnv, sumNow, SUMMARY_REQ_TIMESTAMPS, arrivals, admitted>>
    /\ UNCHANGED <<streamVars, selVars, anVars, comVars>>

\* The completion resolves: audit('ok'), up to the await of the insert.
Completed(s) ==
    /\ slot[s].pc = "llm"
    /\ slot' = [slot EXCEPT ![s] = auditThenRespond(@, "ok")]
    /\ UNCHANGED <<sumEnv, sumNow, SUMMARY_REQ_TIMESTAMPS, arrivals, admitted>>
    /\ UNCHANGED <<streamVars, selVars, anVars, comVars>>

\* The completion rejects with AbortError or 'timeout': notifySlack and
\* audit('timeout'), up to the await of the insert.
TimedOut(s) ==
    /\ slot[s].pc = "llm"
    /\ slot' = [slot EXCEPT ![s] = auditThenRespond(@, "timeout")]
    /\ UNCHANGED <<sumEnv, sumNow, SUMMARY_REQ_TIMESTAMPS, arrivals, admitted>>
    /\ UNCHANGED <<streamVars, selVars, anVars, comVars>>

\* The completion rejects with another error: throw err.
CompletionThrows(s) ==
    /\ slot[s].pc = "llm"
    /\ slot' = [slot EXCEPT ![s].pc = "catch"]
    /\ UNCHANGED <<sumEnv, sumNow, SUMMARY_REQ_TIMESTAMPS, arrivals, admitted>>
    /\ UNCHANGED <<streamVars, selVars, anVars, comVars>>

\* The outer catch: notifySlack and the 'failed' audit row, up to the await
\* of the insert.
Failed(s) ==
    /\ slot[s].pc = "catch"
    /\ slot' = [slot EXCEPT ![s] =
                    IF sumEnv.audit
                    THEN [auditFailed(@) EXCEPT !.pc = awaitingAudit("failed")]
                    ELSE respond(@, "failed", httpStatus("failed"))]
    /\ UNCHANGED <<sumEnv, sumNow, SUMMARY_REQ_TIMESTAMPS, arrivals, admitted>>
    /\ UNCHANGED <<streamVars, selVars, anVars, comVars>>

\* The audit insert resolves (or rejects, which is swallowed): the Response
\* of the outcome is returned.
AuditInserted(s) ==
    /\ slot[s].pc \in AuditPcs
    /\ slot' = [slot EXCEPT ![s] =
                    respond(@, outcomeAwaited(@.pc), httpStatus(outcomeAwaited(@.pc)))]
    /\ UNCHANGED <<sumEnv, sumNow, SUMMARY_REQ_TIMESTAMPS, arrivals, admitted>>
    /\ UNCHANGED <<streamVars, selVars, anVars, comVars>>

\* The response has been sent; the request is gone.
Responded(s) ==
    /\ slot[s].pc = "done"
    /\ slot' = [slot EXCEPT ![s] = IdleSlot]
    /\ UNCHANGED <<sumEnv, sumNow, SUMMARY_REQ_TIMESTAMPS, arrivals, admitted>>
    /\ UNCHANGED <<streamVars, selVars, anVars, comVars>>

\* Time passes.
ClockAdvances ==
    /\ sumNow < MaxClockTicks * ClockStep
    /\ sumNow' = sumNow + ClockStep
    /\ UNCHANGED <<sumEnv, SUMMARY_REQ_TIMESTAMPS, slot, arrivals, admitted>>
    /\ UNCHANGED <<streamVars, selVars, anVars, comVars>>

SumNext ==
    \/ \E s \in Slots : Arrive(s)
    \/ \E s \in Slots : Fetched(s)
    \/ \E s \in Slots : FetchThrows(s)
    \/ \E s \in Slots : RateLimited(s)
    \/ \E s \in Slots : MissingKey(s)
    \/ \E s \in Slots : Completed(s)
    \/ \E s \in Slots : TimedOut(s)
    \/ \E s \in Slots : CompletionThrows(s)
    \/ \E s \in Slots : Failed(s)
    \/ \E s \in Slots : AuditInserted(s)
    \/ \E s \in Slots : Responded(s)
    \/ ClockAdvances

SumStart == StreamOff /\ SelOff /\ AnOff /\ ComOff /\ SumInit

SumSpec == SumStart /\ [][SumNext]_vars

(***************************************************************************)
(* Comments route: the in-memory fallback store.  A comment is kept as its *)
(* number among the comments posted for the match since its list began.    *)
(***************************************************************************)
MAX_COMMENTS_PER_MATCH == 1000
COMMENTS_TTL_MS == 7 * 24 * 60 * 60 * 1000

MaxAdds == 4       \* addCommentToMemory calls followed
MaxComTicks == 3   \* milliseconds the clock is followed past a multiple of the TTL
MaxComTime == 2 * COMMENTS_TTL_MS + MaxComTicks

\* The list after n comments posted one after the other, newest first.
Posted(n) == [i \in 1..n |-> n + 1 - i]

Restrict(f, S) == [k \in S |-> f[k]]

\* now > expiry
expiredAt(ttl, now) == {k \in DOMAIN ttl : now > ttl[k]}

\* As cleanupExpiredComments, without COMMENTS_TTL.delete(matchId).
cleanupExpiredCommentsMemOnly(mem, ttl, now) ==
    [mem |-> Restrict(mem, DOMAIN mem \ expiredAt(ttl, now)), ttl |-> ttl]

\* cleanupExpiredComments()
cleanupExpiredComments(mem, ttl, now) ==
    [mem |-> Restrict(mem, DOMAIN mem \ expiredAt(ttl, now)),
     ttl |-> Restrict(ttl, DOMAIN ttl \ expiredAt(ttl, now))]

\* comments.slice(-MAX_COMMENTS_PER_MATCH + 1) when the list is full
sizeLimited(comments) ==
    IF Len(comments) >= MAX_COMMENTS_PER_MATCH
    THEN SubSeq(comments, Len(comments) - (MAX_COMMENTS_PER_MATCH - 1) + 1, Len(comments))
    ELSE comments

\* addCommentToMemory(matchId, comment)
addCommentToMemory(mem, ttl, now, m, comment) ==
    LET clean == cleanupExpiredComments(mem, ttl, now)
        comments == IF m \in DOMAIN clean.mem THEN clean.mem[m] ELSE <<>>
    IN  [mem |-> (m :> (<<comment>> \o sizeLimited(comments))) @@ clean.mem,
         ttl |-> (m :> (now + COMMENTS_TTL_MS)) @@ clean.ttl]

\* The number of the next comment of the match.
nextComment(mem, ttl, now, m) ==
    IF m \in DOMAIN mem /\ m \notin expiredAt(ttl, now) /\ mem[m] # <<>>
    THEN mem[m][1] + 1 ELSE 1

\* The store is empty, or match M has two comments less than the limit, the
\* last one posted now.
ComInit ==
    /\ \/ COMMENTS_MEM = EmptyMap /\ COMMENTS_TTL = EmptyMap
       \/ /\ COMMENTS_MEM = ("M" :> Posted(MAX_COMMENTS_PER_MATCH - 2))
          /\ COMMENTS_TTL = ("M" :> COMMENTS_TTL_MS)
    /\ comNow = 0
    /\ comCalls = 0
    /\ comLast = NoCall

\* POST stores a comment in memory.
AddComment(m) ==
    /\ comCalls < MaxAdds
    /\ LET after == addCommentToMemory(COMMENTS_MEM, COMMENTS_TTL, comNow, m,
                                       nextComment(COMMENTS_MEM, COMMENTS_TTL, comNow, m))
       IN  /\ COMMENTS_MEM' = after.mem
           /\ COMMENTS_TTL' = after.ttl
    /\ comCalls' = comCalls + 1
    /\ comLast' = [matchId |-> m, at |-> comNow,
                   expired |-> expiredAt(COMMENTS_TTL, comNow),
                   kept |-> DOMAIN COMMENTS_TTL \ expiredAt(COMMENTS_TTL, comNow)]
    /\ UNCHANGED comNow
    /\ UNCHANGED <<streamVars, selVars, anVars, sumVars>>

\* Time passes: a millisecond, or the time a list lives.
ComClockAdvances ==
    /\ \E d \in {1, COMMENTS_TTL_MS} :
          /\ comNow + d <= MaxComTime
          /\ (comNow + d) % COMMENTS_TTL_MS <= MaxComTicks
          /\ comNow' = comNow + d
    /\ UNCHANGED <<COMMENTS_MEM, COMMENTS_TTL, comCalls, comLast>>
    /\ UNCHANGED <<streamVars, selVars, anVars, sumVars>>

ComNext ==
    \/ \E m \in Matches : AddComment(m)
    \/ ComClockAdvances

ComStart == StreamOff /\ SelOff /\ AnOff /\ SumOff /\ ComInit

ComSpec == ComStart /\ [][ComNext]_vars

(***************************************************************************)
(* Tick stream: what the claims speak of.                                  *)
(***************************************************************************)
TickIdx(s) == {i \in 1..Len(s) : s[i].kind = "tick"}
HasTick(s) == TickIdx(s) # {}
FirstTick(s) == s[CHOOSE i \in TickIdx(s) : \A j \in TickIdx(s) : i <= j]
ErrorsBeforeFirstTick(s) ==
    Cardinality({i \in 1..Len(s) : s[i].kind = "error" /\ \A j \in TickIdx(s) : i < j})
HasEnded(s) == \E i \in 1..Len(s) : s[i].kind = "ended"
IsPrefix(s, t) == Len(s) <= Len(t) /\ SubSeq(t, 1, Len(s)) = s
\* The request names a last-seen id n >= 0 (header or query parameter).
SuppliedLast == LastEventIdSource(hdr, qp).t = "num" /\ LastEventIdSource(hdr, qp).n >= 0
LastSeen == LastEventIdSource(hdr, qp).n
\* The step appends exactly the frames fs to the sink.
Emits(fs) == sink' = sink \o fs

\* C1: resumed with last-seen id n >= 0, the first tick frame carries id n+1.
C1_FirstFrameId ==
    (SuppliedLast /\ HasTick(sink)) => FirstTick(sink).id = LastSeen + 1

\* C2 as stated: resumed with last-seen id n >= 0, the first emitted
\* TickSummary has tick = n+1.
C2_FirstSummaryTick ==
    (SuppliedLast /\ HasTick(sink)) => FirstTick(sink).tick = LastSeen + 1

\* C2 amended: the first tick computation is started with number n+1, and the
\* first emitted TickSummary carries n+1 plus the number of tick computations
\* that failed before it (each failed attempt uses up one number).
C2_FirstSummaryTickAmended ==
    /\ (SuppliedLast /\ pc = "building" /\ ~HasTick(sink) /\ CountKind(sink, "error") = 0)
          => arg = LastSeen + 1
    /\ (SuppliedLast /\ HasTick(sink))
          => FirstTick(sink).tick = LastSeen + 1 + ErrorsBeforeFirstTick(sink)

C2_Witness ==
    /\ SuppliedLast /\ LastSeen = 1 /\ HasTick(sink)
    /\ FirstTick(sink).tick = 3
    /\ ErrorsBeforeFirstTick(sink) = 1

\* C3: within one connection the sequence numbers of successive tick frames
\* (SSE id and TickSummary.tick) are strictly increasing, and the sink only
\* ever grows at its end: frames stay in the order they were produced.
C3_StrictlyIncreasingFifo ==
    /\ [](\A i, j \in TickIdx(sink) :
             i < j => (sink[i].id < sink[j].id /\ sink[i].tick < sink[j].tick))
    /\ [][IsPrefix(sink, sink')]_vars

C3_Witness ==
    /\ Cardinality(TickIdx(sink)) >= 2
    /\ CountKind(sink, "error") >= 1
    /\ CountKind(sink, "hb") >= 1
    /\ \E i, j \in TickIdx(sink) : \E k \in i+1..j-1 : sink[k].kind = "error"

\* C4 as stated: with no phase override, an iteration whose phase is `ended`
\* ends with the ended frame and the loop stopped, never with a reschedule;
\* nothing is emitted after the ended frame and the stream is closed.
C4_EndedStopsLoop ==
    /\ [][(pc = "building" /\ ctrl = "open" /\ forceWindow = NoWindow
             /\ winState = "ended" /\ pc' # "building")
          => (pc' = "exited" /\ ctrl' = "closed" /\ delayTimer' = "none"
                /\ sink'[Len(sink')] = EndedFrame)]_vars
    /\ [](HasEnded(sink) => (pc = "exited" /\ ctrl = "closed"))
    /\ [][HasEnded(sink) => sink' = sink]_vars

\* C4 amended: with no phase override, an iteration whose phase is `ended` and
\* whose tick is built and emitted ends with the ended frame right after that
\* tick frame, the loop stopped and the stream closed (a failed build gives an
\* error frame and a reschedule instead); the ended frame is emitted at most
\* once, is the last frame, and nothing is emitted after it.
C4_EndedTerminal ==
    /\ [][(pc = "building" /\ ctrl = "open" /\ forceWindow = NoWindow
             /\ winState = "ended" /\ Len(sink') > Len(sink)
             /\ sink'[Len(sink) + 1].kind = "tick")
          => (Emits(<<TickFrame(tick, arg, "post"), EndedFrame>>)
                /\ pc' = "exited" /\ ctrl' = "closed" /\ pinger' = "none"
                /\ delayTimer' = "none")]_vars
    /\ [](HasEnded(sink) => (pc = "exited" /\ ctrl = "closed"
                               /\ CountKind(sink, "ended") = 1
                               /\ sink[Len(sink)] = EndedFrame))
    /\ [][HasEnded(sink) => sink' = sink]_vars

C4_Witness ==
    /\ HasEnded(sink) /\ forceWindow = NoWindow /\ pc = "exited"
    /\ CountKind(sink, "error") >= 1
    /\ closer = "fired"

\* C5: a tick computation that fails while the stream is not stopped is
\* caught and gives exactly one error frame and a pending tick delay, the
\* stream staying open; when that delay elapses with the stream not stopped,
\* the loop starts the next tick computation.
C5_TickErrorNonFatal ==
    /\ [][(TickFail /\ ctrl = "open")
          => (Emits(<<ErrorFrame>>) /\ pc' = "delay" /\ delayTimer' = "pending"
                /\ ctrl' = "open" /\ stopped' = stopped)]_vars
    /\ [][(pc = "delay" /\ ~stopped /\ pc' # "delay")
          => (pc' = "building" /\ arg' = tick /\ ctrl' = ctrl)]_vars

C5_Witness ==
    /\ pc = "building" /\ ~stopped /\ ctrl = "open"
    /\ sink[Len(sink)] = ErrorFrame

\* C6: once the stream is closed, no heartbeat interval, connection-cap
\* timeout or tick-delay timer remains pending.
C6_NoTimerAfterClose ==
    ctrl = "closed" => (closer # "pending" /\ pinger = "none" /\ delayTimer = "none")

\* C7 as stated: cancelling is idempotent, a tick whose computation had
\* started before the cancellation is still emitted, and no tick computation
\* is started after the cancellation.
C7_InFlightTickEmitted ==
    /\ [][(Cancel /\ cancelled) => UNCHANGED vars]_vars
    /\ [][(cancelled /\ pc = "building" /\ TickDone)
          => (Len(sink') > Len(sink) /\ sink'[Len(sink) + 1].kind = "tick")]_vars
    /\ [][(cancelled /\ pc # "building") => pc' # "building"]_vars

\* C7 amended: cancelling is idempotent and does not interrupt a tick
\* computation in flight, which runs to its end; its frame is not delivered,
\* the sink being closed by the cancellation (the enqueue throws and ends the
\* loop); no tick computation is started and no frame is emitted after the
\* cancellation.
C7_CancelAtTickBoundary ==
    /\ [][(Cancel /\ cancelled) => UNCHANGED vars]_vars
    /\ [][Cancel => (pc' = pc /\ arg' = arg /\ tick' = tick /\ sink' = sink /\ stopped')]_vars
    /\ [][(cancelled /\ pc = "building" /\ pc' # "building")
          => (pc' = "crashed" /\ sink' = sink)]_vars
    /\ [][(cancelled /\ pc # "building") => pc' # "building"]_vars
    /\ [][cancelled => sink' = sink]_vars

C7_Witness ==
    /\ cancelled /\ pc = "crashed"
    /\ Cardinality(TickIdx(sink)) = 1

\* C8: once the connection cap has fired the stream is stopped and closed
\* with its heartbeat cleared, whatever the phase; afterwards no tick
\* computation is started and no frame (no tick, no ended) is delivered.
C8_CapTerminates ==
    /\ [](closer = "fired" => (stopped /\ ctrl = "closed" /\ pinger = "none"))
    /\ [][closer' = "fired" => sink' = sink]_vars
    /\ [][(closer = "fired" /\ pc # "building") => pc' # "building"]_vars

C8_Witness ==
    /\ closer = "fired" /\ pc = "crashed"
    /\ forceWindow = NoWindow /\ winState = "ended"
    /\ ~HasEnded(sink)

(***************************************************************************)
(* Account selector: what the claims speak of.                             *)
(***************************************************************************)
\* The account an override rule names, by native id or by handle.
RuleAccount(o) ==
    CHOOSE a \in Accounts : o.identifier \in {Directory[a].did, Directory[a].handle}
NamedByExclude(a) ==
    \E x \in exc : x.identifier \in {Directory[a].did, Directory[a].handle}
NativeId(p) == IF platform = "bsky" THEN p.did ELSE p.user_id
\* The selected account sa is account a.
IsAccount(sa, a) ==
    NativeId(sa.profile) = Directory[a].did \/ sa.profile.handle = Directory[a].handle
InOutput(a) == \E j \in 1..Len(selOut) : IsAccount(selOut[j], a)

\* C9: the list selectEligibleAccounts returns is never longer than the
\* platform's configured maximum number of accounts.
C9_LengthWithinCap ==
    selPc = "done" => Len(selOut) <= maxAccounts

\* C10: every include rule with bypass_eligibility = true whose account no
\* exclude rule names yields an account in the selector output, whether or
\* not the profile lookup succeeded and whether or not the cap applies.
C10_BypassIncludeSelected ==
    selPc = "done" =>
        \A i \in 1..Len(inc) :
            (inc[i].bypass_eligibility /\ ~NamedByExclude(RuleAccount(inc[i])))
                => InOutput(RuleAccount(inc[i]))

\* The include rule o and the exclude rule x name the same identifier.
SameIdentifier(o, x) ==
    o.identifier = x.identifier /\ o.identifier_type = x.identifier_type

\* C11: an account whose identifier is named by an exclude rule and by an
\* include rule is absent from the selector output, with or without
\* bypass_eligibility, the profile lookup succeeding or failing.
C11_ExcludeWins ==
    selPc = "done" =>
        \A i \in 1..Len(inc) : \A x \in exc :
            SameIdentifier(inc[i], x) => ~InOutput(RuleAccount(inc[i]))

\* The include list and the base list of the call, as steps 3 and 4 build them.
IncludedOfCall ==
    IF platform = "bsky" THEN selectedInclude(inc, includeByKey(inc, lookup), exc)
    ELSE tw_selectedInclude(inc, tw_includeByKey(<<>>, inc), exc)
BaseOfCall ==
    IF platform = "bsky" THEN selectedBase(baseProfiles, IncludedOfCall, exc)
    ELSE tw_selectedBase(baseProfiles, IncludedOfCall, exc)
Range(s) == {s[i] : i \in 1..Len(s)}
\* The selected account comes from an include override / only from the allowlist.
FromInclude(sa) == sa \in Range(IncludedOfCall)
FromBaseOnly(sa) == sa \notin Range(IncludedOfCall)

\* C13: in the selector output every account that comes from an include
\* override precedes every account that comes only from the base allowlist.
C13_IncludesFirst ==
    selPc = "done" =>
        \A i, j \in 1..Len(selOut) :
            (FromBaseOnly(selOut[i]) /\ FromInclude(selOut[j])) => j < i

\* C14: in the selector output the base-allowlist accounts are in
\* non-increasing follower-count order (missing count = 0), and no eligible
\* base account left out has more followers than a base account kept.
C14_BaseByFollowers ==
    selPc = "done" =>
        /\ \A i, j \in 1..Len(selOut) :
              (i < j /\ FromBaseOnly(selOut[i]) /\ FromBaseOnly(selOut[j]))
                  => followersOf(selOut[i]) >= followersOf(selOut[j])
        /\ \A k \in 1..Len(BaseOfCall) : \A j \in 1..Len(selOut) :
              (BaseOfCall[k] \notin Range(selOut) /\ FromBaseOnly(selOut[j]))
                  => followersOf(selOut[j]) >= followersOf(BaseOfCall[k])

\* C15: the selector output never holds the same account twice.
C15_NoDuplicateAccount ==
    selPc = "done" =>
        \A i, j \in 1..Len(selOut) :
            i < j => ~\E a \in Accounts : IsAccount(selOut[i], a) /\ IsAccount(selOut[j], a)

\* C16: in the Bluesky selector an include rule whose identifier the profile
\* lookup returned is output with the resolved profile; the synthesized
\* minimal profile (no DID, followers 0) appears only for an account the
\* lookup did not return.
C16_ResolvedProfileUsed ==
    (selPc = "done" /\ platform = "bsky") =>
        \A j \in 1..Len(selOut) :
            selOut[j].profile.did = ""
                => ~\E a \in lookup : Directory[a].handle = selOut[j].profile.handle

(***************************************************************************)
(* Override scopes: what the claims speak of.                              *)
(***************************************************************************)
NamesAccount(r, a) == r.identifier \in {Directory[a].did, Directory[a].handle}
HasRow(k, sc, m, a) ==
    \E i \in 1..Len(ovTable) :
        /\ ovTable[i].kind = k /\ ovTable[i].scope = sc /\ ovTable[i].match_id = m
        /\ NamesAccount(ovTable[i], a)
HasBypassInclude(sc, m, a) ==
    \E i \in 1..Len(ovTable) :
        /\ ovTable[i].kind = "include" /\ ovTable[i].scope = sc /\ ovTable[i].match_id = m
        /\ ovTable[i].bypass_eligibility /\ NamesAccount(ovTable[i], a)
InAccountsUsed(a) ==
    \E j \in 1..Len(accountsUsed(selOut)) :
        LET u == accountsUsed(selOut)[j]
        IN  u.did = Directory[a].did \/ u.handle = Directory[a].handle

\* C12: the Twitter selector called for match M selects an account named by
\* a match-scoped (bypass) include rule for M and by a global exclude rule,
\* when no exclude rule scoped to M names it: match INCLUDE outranks global
\* EXCLUDE.
C12_MatchIncludeOverGlobalExclude ==
    (selPc = "done" /\ caller = "selector" /\ platform = "twitter") =>
        \A a \in Accounts :
            (/\ HasBypassInclude("match", matchId, a)
             /\ HasRow("exclude", "global", NoMatch, a)
             /\ ~HasRow("exclude", "match", matchId, a))
                => InOutput(a)

\* C17: the accounts used to build a tick, or a summary, for match M honour
\* the rules scoped to M: an account named by an exclude rule scoped to M is
\* not in accountsUsed, and an account named by a bypass include rule scoped
\* to M, and by no exclude rule in scope, is.
C17_TickUsesMatchRules ==
    (selPc = "done" /\ caller \in {"buildTick", "summary"}) =>
        \A a \in Accounts :
            /\ HasRow("exclude", "match", matchId, a) => ~InAccountsUsed(a)
            /\ (/\ HasBypassInclude("match", matchId, a)
                /\ ~HasRow("exclude", "match", matchId, a)
                /\ ~HasRow("exclude", "global", NoMatch, a))
                  => InAccountsUsed(a)

(***************************************************************************)
(* Eligibility and analytics: what the claims speak of.                    *)
(***************************************************************************)
MinFollowersOf(pf) == IF pf = "bsky" THEN BSKY_MIN_FOLLOWERS ELSE TWITTER_MIN_FOLLOWERS
MinMonthsOf(pf) == IF pf = "bsky" THEN BSKY_MIN_ACCOUNT_MONTHS ELSE TWITTER_MIN_ACCOUNT_MONTHS
EvaluatedProfile == anPc = "done" /\ anIn.kind = "profile"
FollowersGiven == IF anIn.followersCount = None THEN 0 ELSE anIn.followersCount[1]
AgeUnknown == anIn.createdAt = None

\* C18: computeEligibility returns eligible exactly when the follower count
\* (0 when missing) is not below the minimum and the age is unknown or not
\* below the minimum; too few followers always give eligible = false, an
\* unknown createdAt never makes a profile ineligible and is disclosed, and
\* reasons holds one entry for the follower check followed by one for the age.
C18_EligibilityRule ==
    EvaluatedProfile =>
        LET followersOk == FollowersGiven >= MinFollowersOf(anIn.platform)
            ageOk == ~AgeUnknown
                        /\ Abs(anIn.createdAt[1]) >= 30 * MinMonthsOf(anIn.platform)
        IN  /\ anOut.eligible <=> (followersOk /\ (ageOk \/ AgeUnknown))
            /\ ~followersOk => ~anOut.eligible
            /\ AgeUnknown => (anOut.eligible <=> followersOk)
            /\ Len(anOut.reasons) = 2
            /\ anOut.reasons[1] = (IF followersOk THEN "followers>=min" ELSE "followers<min")
            /\ anOut.reasons[2] = (IF AgeUnknown THEN "age=unknown"
                                   ELSE IF ageOk THEN "age>=min" ELSE "age<min")

C18_Witness ==
    /\ EvaluatedProfile /\ AgeUnknown /\ anIn.followersCount # None
    /\ anOut.eligible /\ anOut.reasons[2] = "age=unknown"

SummarizedPosts == anPc = "done" /\ anIn.kind = "posts"
\* The number of posts whose score (0 when there is none) satisfies the test.
PositiveIn(posts) == Cardinality({i \in 1..Len(posts) : scoreOf(posts[i]) > 0})
NegativeIn(posts) == Cardinality({i \in 1..Len(posts) : scoreOf(posts[i]) < 0})
NeutralIn(posts) == Cardinality({i \in 1..Len(posts) : scoreOf(posts[i]) = 0})
RatioSum(s) == FloatAdd(FloatAdd(s.pos, s.neu), s.neg)
\* The doubles next to 1: 1 - 2^-52, 1 - 2^-53, 1 + 2^-52.
NearOne ==
    {FloatOne,
     [zero |-> FALSE, e |-> -1, m |-> [i \in 1..Precision |-> 1]],
     [zero |-> FALSE, e |-> -1, m |-> [i \in 1..Precision |-> IF i = Precision THEN 0 ELSE 1]],
     [zero |-> FALSE, e |-> 0, m |-> [i \in 1..Precision |-> IF i \in {1, Precision} THEN 1 ELSE 0]]}
CountsPartition ==
    LET c == anOut.sentiment.counts
    IN  /\ c.pos = PositiveIn(anIn.posts)
        /\ c.neg = NegativeIn(anIn.posts)
        /\ c.neu = NeutralIn(anIn.posts)
        /\ c.pos + c.neu + c.neg = c.total
        /\ c.total = anOut.volume
        /\ anOut.volume = Len(anIn.posts)
RatiosAreQuotients ==
    LET s == anOut.sentiment
    IN  anOut.volume > 0 =>
            /\ s.pos = FloatDiv(s.counts.pos, s.counts.total)
            /\ s.neu = FloatDiv(s.counts.neu, s.counts.total)
            /\ s.neg = FloatDiv(s.counts.neg, s.counts.total)
AllZeroWhenEmpty ==
    LET s == anOut.sentiment
    IN  anOut.volume = 0 =>
            /\ s.pos = FloatZero /\ s.neu = FloatZero /\ s.neg = FloatZero
            /\ s.counts = [total |-> 0, pos |-> 0, neg |-> 0, neu |-> 0]

\* C19 as stated: in every TickSummary the three counts partition the posts
\* and add up to counts.total = volume, each ratio is its count divided by
\* the total, pos + neu + neg is 1 when volume > 0, and every ratio and count
\* is 0 when volume = 0.
C19_RatiosSumToOne ==
    SummarizedPosts =>
        /\ CountsPartition
        /\ RatiosAreQuotients
        /\ anOut.volume > 0 => RatioSum(anOut.sentiment) = FloatOne
        /\ AllZeroWhenEmpty

\* C19 amended: the counts partition the posts and add up to counts.total =
\* volume, each ratio is the double nearest to count / total, every ratio and
\* count is 0 when volume = 0, and when volume > 0 pos + neu + neg is 1 up to
\* rounding: 1 or a double next to it.
C19_RatiosSumNearOne ==
    SummarizedPosts =>
        /\ CountsPartition
        /\ RatiosAreQuotients
        /\ anOut.volume > 0 => RatioSum(anOut.sentiment) \in NearOne
        /\ AllZeroWhenEmpty

C19_Witness ==
    /\ SummarizedPosts /\ anOut.volume = 6
    /\ anOut.sentiment.counts = [total |-> 6, pos |-> 1, neg |-> 1, neu |-> 4]
    /\ RatioSum(anOut.sentiment) # FloatOne
    /\ \E i \in 1..6 : anIn.posts[i].score = None

ExtractedTopics == anPc = "done" /\ anIn.kind = "topics"
\* The posts whose text contains the keyword, case-insensitively.
PostsContaining(keyword) ==
    {i \in 1..Len(anIn.posts) :
        includes(toLowerCase(anIn.posts[i].text), toLowerCase(keyword))}

\* C20: extractTopics returns at most 10 entries in non-increasing count
\* order; each entry names a keyword in its configured casing, once, with
\* the number of posts whose text contains it case-insensitively, never 0.
C20_TopicsByPostCount ==
    ExtractedTopics =>
        /\ Len(anOut) <= 10
        /\ \A i, j \in 1..Len(anOut) : i < j =>
              /\ anOut[i].count >= anOut[j].count
              /\ toLowerCase(anOut[i].keyword) # toLowerCase(anOut[j].keyword)
        /\ \A i \in 1..Len(anOut) :
              /\ anOut[i].keyword \in Range(anIn.keywords)
              /\ anOut[i].count = Cardinality(PostsContaining(anOut[i].keyword))
              /\ anOut[i].count > 0

\* More than 10 keywords match, one of them in two posts and several times
\* in one, and a keyword with a capital is matched by lower-case text.
C20_Witness ==
    /\ ExtractedTopics /\ Len(anOut) = 10
    /\ Cardinality({k \in Range(anIn.keywords) : PostsContaining(k) # {}}) > 10
    /\ anOut[1].count = 2 /\ anOut[2].count = 1
    /\ occurrencesIn(toLowerCase(anIn.posts[1].text), toLowerCase(anOut[1].keyword)) > 1
    /\ \E i \in 1..10 : anOut[i].keyword # toLowerCase(anOut[i].keyword)

\* The place of a keyword in the configured list: that of the first keyword
\* equal to it up to case.
ConfigPos(keyword) ==
    CHOOSE i \in 1..Len(anIn.keywords) :
        /\ toLowerCase(anIn.keywords[i]) = toLowerCase(keyword)
        /\ \A j \in 1..(i - 1) : toLowerCase(anIn.keywords[j]) # toLowerCase(keyword)
\* The first post containing the keyword.
FirstPostWith(keyword) ==
    CHOOSE i \in PostsContaining(keyword) : \A j \in PostsContaining(keyword) : i <= j

\* C21 as stated: keywords with equal counts appear in the order of the
\* configured keyword list, whatever the order of the posts.
C21_TiesInConfigOrder ==
    ExtractedTopics =>
        \A i, j \in 1..Len(anOut) :
            (i < j /\ anOut[i].count = anOut[j].count)
                => ConfigPos(anOut[i].keyword) < ConfigPos(anOut[j].keyword)

\* C21 amended: keywords with equal counts appear in the order in which they
\* were first matched: by the first post that contains them, and among
\* keywords first matched by the same post in the configured order.
C21_TiesInFirstMatchOrder ==
    ExtractedTopics =>
        \A i, j \in 1..Len(anOut) :
            (i < j /\ anOut[i].count = anOut[j].count)
                => \/ FirstPostWith(anOut[i].keyword) < FirstPostWith(anOut[j].keyword)
                   \/ /\ FirstPostWith(anOut[i].keyword) = FirstPostWith(anOut[j].keyword)
                      /\ ConfigPos(anOut[i].keyword) < ConfigPos(anOut[j].keyword)

C21_Witness ==
    /\ ExtractedTopics /\ Len(anOut) = 2
    /\ anOut[1].count = anOut[2].count
    /\ ConfigPos(anOut[1].keyword) > ConfigPos(anOut[2].keyword)
    /\ FirstPostWith(anOut[1].keyword) < FirstPostWith(anOut[2].keyword)

(***************************************************************************)
(* Fetching: what the claims speak of.                                     *)
(***************************************************************************)
BuiltTickPosts == anPc = "done" /\ anIn.kind = "fetch" /\ anOut.call = "buildTick"
FetchedPosts == anPc = "done" /\ anIn.kind = "fetch" /\ anOut.call = "fetch"
\* The in-window text items of the feed of account a, for a lookback of m.
Kept(a, m) ==
    {i \in 1..Len(anIn.feeds[a].feed) :
        LET item == anIn.feeds[a].feed[i]
        IN  item.text # "" /\ item.createdAt.t # "missing"
              /\ (item.createdAt.t = "time" => item.createdAt.age <= m)}
\* The accounts of the call whose feed call is made and succeeds.
Served == {a \in Range(anIn.accounts) : actorOf(a) # "" /\ ~anIn.feeds[a].failed}
\* The first fetch of the tick finds no post.
FirstFetchEmpty == \A a \in Served : Kept(a, validatedMinutes(anIn.sinceMinutes)) = {}

\* C22: building a tick fetches the posts a second time exactly when the
\* first fetch returned no post and at least one account was selected; there
\* is at most one retry and its lookback is max(requested minutes, 60).
C22_RetryOnceWhenEmpty ==
    BuiltTickPosts =>
        /\ Len(anOut.fetches) \in {1, 2}
        /\ anOut.fetches[1] = anIn.sinceMinutes
        /\ Len(anOut.fetches) = 2 <=> (FirstFetchEmpty /\ Len(anIn.accounts) > 0)
        /\ Len(anOut.fetches) = 2 =>
              anOut.fetches[2] = (IF anIn.sinceMinutes > 60 THEN anIn.sinceMinutes ELSE 60)
        /\ (Len(anOut.fetches) = 2 /\ ~anIn.testEnv) =>
              \A a \in Served : \A i \in Kept(a, anOut.fetches[2]) :
                  \E k \in 1..Len(anOut.posts) :
                      /\ anOut.posts[k].author = a
                      /\ anOut.posts[k].createdAt = anIn.feeds[a].feed[i].createdAt

\* The retry with the wider lookback finds a post the first fetch left out.
C22_Witness ==
    /\ BuiltTickPosts /\ anIn.sinceMinutes = 15 /\ ~anIn.testEnv
    /\ anOut.fetches = <<15, 60>>
    /\ Len(anOut.posts) > 0
    /\ anOut.posts[1].createdAt = TimeAgo(30)

\* The items of the feed of account a that carry text and a time within the
\* last m minutes.
InWindow(a, m) ==
    {i \in 1..Len(anIn.feeds[a].feed) :
        LET item == anIn.feeds[a].feed[i]
        IN  item.text # "" /\ item.createdAt.t = "time" /\ item.createdAt.age <= m}
\* The returned posts of account a that carry a time.
TimedPostsOf(a) ==
    {k \in 1..Len(anOut.posts) :
        anOut.posts[k].author = a /\ anOut.posts[k].createdAt.t = "time"}

\* C23: a failing feed call for one account does not abort the batch: the
\* call returns, and the result holds the in-window text posts of every
\* account whose feed call succeeded, wherever the failing accounts stand.
C23_FeedFailureIsolated ==
    FetchedPosts =>
        /\ ~anOut.threw
        /\ \A a \in Served :
              Cardinality(TimedPostsOf(a)) =
                  Cardinality(InWindow(a, validatedMinutes(anIn.sinceMinutes)))
        /\ \A k \in 1..Len(anOut.posts) : anOut.posts[k].author \in Served

\* The feed call of the first account fails and the post of the second one
\* is returned.
C23_Witness ==
    /\ FetchedPosts
    /\ anIn.accounts = <<"x", "y">>
    /\ anIn.feeds["x"].failed
    /\ Len(anOut.posts) = 1
    /\ anOut.posts[1].author = "y"
    /\ anOut.posts[1].createdAt.t = "time"

\* C24: every post returned for a lookback of m minutes has text and a
\* createdAt at or after now - m minutes; items with a missing, older or
\* invalid timestamp are not returned.
C24_OnlyInWindowPosts ==
    FetchedPosts =>
        \A k \in 1..Len(anOut.posts) :
            /\ anOut.posts[k].text # ""
            /\ anOut.posts[k].createdAt.t = "time"
            /\ anOut.posts[k].createdAt.age <= validatedMinutes(anIn.sinceMinutes)

(***************************************************************************)
(* Summaries route: what the claims speak of.                              *)
(***************************************************************************)
\* The requests that have their response.
Answered == {s \in Slots : slot[s].pc = "done"}

\* C25: the joined text sent on and recorded as chars_count is never longer
\* than (modelMaxTokens - reservedResponseTokens) * charsPerToken characters
\* (400 with 1000, 600 and 1), and at most 150 posts are kept.
C25_WithinTokenBudget ==
    \A s \in Answered :
        /\ slot[s].sent <= (modelMaxTokens - reservedResponseTokens) * charsPerToken
        /\ \A i \in 1..Len(slot[s].audits) :
              /\ slot[s].audits[i].chars_count
                    <= (modelMaxTokens - reservedResponseTokens) * charsPerToken
              /\ slot[s].audits[i].posts_count <= MAX_POSTS

\* C26: the rate limiter is one budget for all requests of the process: in
\* any interleaving at most RATE_MAX requests are admitted within any
\* RATE_WINDOW_MS, and a request that reaches the limiter while RATE_MAX
\* requests were admitted within the last RATE_WINDOW_MS is rejected with
\* 429, rate_limited, and the language model is not called for it.
C26_RateLimitShared ==
    /\ \A i \in 1..Len(admitted) :
          Cardinality({j \in 1..Len(admitted) :
                          /\ admitted[j] <= admitted[i]
                          /\ admitted[i] - admitted[j] < RATE_WINDOW_MS}) <= RATE_MAX
    /\ \A s \in Slots :
          /\ slot[s].gate = "rejected" <=>
                (slot[s].gate # "none" /\ slot[s].recent >= RATE_MAX)
          /\ slot[s].gate = "rejected" => slot[s].llm = 0
          /\ (slot[s].gate = "rejected" /\ slot[s].pc = "done") =>
                slot[s].http = 429 /\ slot[s].outcome = "rate_limited"

\* A fifth request within the window has been rejected, and after the
\* window has passed a request has been admitted again.
C26_Witness ==
    /\ Len(admitted) > RATE_MAX
    /\ \E s \in Slots :
          /\ slot[s].pc = "done"
          /\ slot[s].outcome = "rate_limited"
          /\ slot[s].recent = RATE_MAX

StatusOf(outcome) ==
    CASE outcome = "ok" -> 200
      [] outcome = "rate_limited" -> 429
      [] outcome = "missing_key" -> 500
      [] outcome = "timeout" -> 504
      [] outcome = "failed" -> 500
      [] OTHER -> 0

\* C27: every request ends in exactly one outcome among ok, rate_limited,
\* missing_key, timeout and failed, answered with its status (200, 429, 500,
\* 504, 500) and written to the audit log exactly once with that status; the
\* language model is called at most once for a request.
C27_OneOutcomeAuditedOnce ==
    /\ \A s \in Slots : slot[s].llm <= 1
    /\ \A s \in Answered :
          /\ slot[s].outcome \in {"ok", "rate_limited", "missing_key", "timeout", "failed"}
          /\ slot[s].http = StatusOf(slot[s].outcome)
          /\ Len(slot[s].audits) = 1
          /\ slot[s].audits[1].status = slot[s].outcome

\* Amended C27: as C27, with the audit row written exactly once, before the
\* response, when the audit store is configured and not at all when it is
\* not.
C27_OneOutcomeAuditedWhenConfigured ==
    /\ \A s \in Slots : slot[s].llm <= 1
    /\ \A s \in Slots :
          /\ slot[s].pc \notin AuditPcs \cup {"done"} => slot[s].audits = <<>>
          /\ slot[s].pc \in AuditPcs =>
                /\ sumEnv.audit
                /\ Len(slot[s].audits) = 1
                /\ slot[s].audits[1].status = outcomeAwaited(slot[s].pc)
                /\ slot[s].http = 0
    /\ \A s \in Answered :
          /\ slot[s].outcome \in {"ok", "rate_limited", "missing_key", "timeout", "failed"}
          /\ slot[s].http = StatusOf(slot[s].outcome)
          /\ Len(slot[s].audits) = (IF sumEnv.audit THEN 1 ELSE 0)
          /\ \A i \in 1..Len(slot[s].audits) : slot[s].audits[i].status = slot[s].outcome
          /\ slot[s].outcome = "ok" <=> (slot[s].llm = 1 /\ slot[s].http = 200)
          /\ slot[s].outcome = "timeout" => slot[s].llm = 1
          /\ slot[s].outcome \in {"rate_limited", "missing_key"} => slot[s].llm = 0

\* A timed-out request has been answered with 504 and audited once.
C27_Witness ==
    /\ sumEnv.audit
    /\ \E s \in Answered :
          /\ slot[s].outcome = "timeout"
          /\ slot[s].http = 504
          /\ slot[s].audits[1].status = "timeout"
    /\ \E s \in Answered : slot[s].outcome = "rate_limited"

(***************************************************************************)
(* Comments route: what the claims speak of.                               *)
(***************************************************************************)
\* C28: the list of a match never holds more than MAX_COMMENTS_PER_MATCH
\* comments, and the comment dropped at the limit is the oldest one: the
\* list holds the most recent comments of the match, newest first.
C28_KeepsMostRecent ==
    \A m \in DOMAIN COMMENTS_MEM :
        /\ Len(COMMENTS_MEM[m]) <= MAX_COMMENTS_PER_MATCH
        /\ \A i \in 1..Len(COMMENTS_MEM[m]) :
              COMMENTS_MEM[m][i] = COMMENTS_MEM[m][1] - (i - 1)

\* C29: COMMENTS_MEM and COMMENTS_TTL hold the same match ids; the expiry of
\* a match is 7 days after its last added comment; a match whose expiry has
\* passed is removed from both maps by the next addCommentToMemory call,
\* whatever match that call is for (the match of the call starts a new list).
C29_ExpiredRemovedFromBoth ==
    /\ DOMAIN COMMENTS_MEM = DOMAIN COMMENTS_TTL
    /\ comLast.matchId # "none" =>
          /\ comLast.matchId \in DOMAIN COMMENTS_MEM
          /\ COMMENTS_TTL[comLast.matchId] = comLast.at + COMMENTS_TTL_MS
          /\ \A k \in comLast.expired :
                IF k = comLast.matchId
                THEN COMMENTS_MEM[k] = <<1>>
                ELSE k \notin DOMAIN COMMENTS_MEM /\ k \notin DOMAIN COMMENTS_TTL
          /\ \A k \in comLast.kept : k \in DOMAIN COMMENTS_MEM

\* The list of M had expired when a comment was added for N: M is gone.
C29_Witness ==
    /\ comLast.matchId = "N"
    /\ comLast.expired = {"M"}
    /\ "M" \notin DOMAIN COMMENTS_MEM
    /\ COMMENTS_MEM["N"] = <<1>>

(***************************************************************************)
(* Tick stream: the start without a usable last-seen id.                   *)
(***************************************************************************)
\* Neither the Last-Event-ID header nor the lastEventId parameter was sent,
\* or the last-seen id sent is not a number or is negative.
NoUsableLast ==
    \/ hdr = Absent /\ qp = Absent
    \/ LastEventIdSource(hdr, qp).t = "text"
    \/ LastEventIdSource(hdr, qp).t = "num" /\ LastEventIdSource(hdr, qp).n < 0

\* C30: started without a last-seen id, or with one that is not a number or
\* is negative, the first tick carries sequence number 0: the first tick
\* computation is started with 0 and, when it succeeds, the first TickSummary
\* emitted has tick 0.
C30_FreshStreamStartsAtZero ==
    /\ (NoUsableLast /\ pc = "building" /\ ~HasTick(sink) /\ CountKind(sink, "error") = 0)
          => arg = 0
    /\ (NoUsableLast /\ HasTick(sink) /\ ErrorsBeforeFirstTick(sink) = 0)
          => FirstTick(sink).tick = 0

====
